---- MODULE Spec2Model ----
(***************************************************************************)
(* Model of the anomaly-score importer (scripts/import_anomaly_scores.py)  *)
(* and of the read-side aggregations of app/routes/anomalies.py.           *)
(*                                                                         *)
(* Scores are decimals k / ScoreDen held as the integer k; the histogram    *)
(* compares the doubles they are stored as.                                *)
(* Percentiles are exact rationals held as reduced fractions <<n, d>>.     *)
(* Optional values (SQL NULL / Python None) are sequences of length <= 1.  *)
(* The database is PostgreSQL at its default READ COMMITTED isolation,     *)
(* reached through one psycopg2 connection per importer (autocommit off).  *)
(***************************************************************************)
EXTENDS Integers, Sequences, FiniteSets, TLC

\* ------------------------------------------------------------------ bounds
MaxTower == 2
MaxBatch == 2
MaxRankLen == 3
MaxRankScore == 2
ScoreDen == 5
MaxHistLen == 2
MaxAssoc == 3
MaxStatsLen == 50

\* ------------------------------------------------------- program constants
page_size == 10000
MinBuckets == 5
MaxBuckets == 100

Procs == {"a", "b"}
Versions == {"v1", "v2"}
Runs == {"r1", "r2"}
Providers == {7, 8}
BandCounts == {0, 3}

None == <<>>
Some(x) == <<x>>

VARIABLES
    store,        \* committed rows of table tower_anomaly_scores
    tableExists,  \* the CREATE TABLE of create_table has been committed
    clock,        \* number of importer processes started so far
    pc,           \* position of each importer process
    csv,          \* rows of the CSV file given to each run
    mv,           \* --model_version of each run
    rid,          \* --run_id of each run
    data,         \* the list `data` built by import_scores
    snap,         \* rows seen by the snapshot of the running DELETE
    del,          \* committed rows deleted or replaced by the open transaction
    ins,          \* rows written by the open transaction, not yet committed
    idx,          \* next element of `data` that execute_values sends
    txid,         \* start time of the run's transaction
    outcome,      \* how each importer ended
    undone,       \* the importer's rollback discarded a DELETE or an INSERT
    pre,          \* store when the run started
    overlapped,   \* the run's transaction overlapped one of the same version
    lastImport,   \* arguments of the last committed import, and whether the
                  \* committed import before it had the same arguments
    resp,         \* response of the last query
    towers,       \* table towers: tower id -> coordinates
    tower_providers, \* rows of table tower_providers, in the order read
    source        \* what each run finds at the path given as --csv

vars == <<store, tableExists, clock, pc, csv, mv, rid, data, snap, del, ins,
          idx, txid, outcome, undone, pre, overlapped, lastImport, resp,
          towers, tower_providers, source>>

\* --------------------------------------------------------------- fractions
RECURSIVE Gcd(_, _)
Gcd(a, b) == IF b = 0 THEN a ELSE Gcd(b, a % b)

Frac(n, d) == <<n \div Gcd(n, d), d \div Gcd(n, d)>>

FracLess(x, y) == x[1] * y[2] < y[1] * x[2]

\* ------------------------------------------------------ IEEE 754 doubles
\* A double is [sign, exp, m]: sign in {-1, 0, 1}, and for sign # 0 the value
\* sign * M * 2^(exp - 52) with the 53-bit significand
\* M = m[1] * 2^36 + m[2] * 2^18 + m[3], 2^16 <= m[1] < 2^17, m[2], m[3] < 2^18.
RECURSIVE Pow2(_)
Pow2(n) == IF n = 0 THEN 1 ELSE 2 * Pow2(n - 1)

Limb == Pow2(18)

fzero == [sign |-> 0, exp |-> 0, m |-> <<0, 0, 0>>]

\* the significand m plus one unit in the last place, renormalised
fnext(sign, e, m) ==
    IF m[3] + 1 < Limb THEN [sign |-> sign, exp |-> e, m |-> <<m[1], m[2], m[3] + 1>>]
    ELSE IF m[2] + 1 < Limb THEN [sign |-> sign, exp |-> e, m |-> <<m[1], m[2] + 1, 0>>]
    ELSE IF m[1] + 1 < Pow2(17) THEN [sign |-> sign, exp |-> e, m |-> <<m[1] + 1, 0, 0>>]
    ELSE [sign |-> sign, exp |-> e + 1, m |-> <<Pow2(16), 0, 0>>]

\* k / d for integers k and d > 0, rounded to the nearest double, ties to even
\* (float division; also the double a decimal literal k/d is read as)
fdiv(k, d) ==
    IF k = 0 THEN fzero
    ELSE
    LET sign == IF k < 0 THEN 0 - 1 ELSE 1
        a    == IF k < 0 THEN 0 - k ELSE k
        e    == CHOOSE x \in (0 - 12)..12 :
                    IF x >= 0 THEN d * Pow2(x) <= a /\ a < d * Pow2(x + 1)
                    ELSE d <= a * Pow2(0 - x) /\ a * Pow2(0 - x) < 2 * d
        num  == IF e >= 0 THEN a ELSE a * Pow2(0 - e)
        den  == IF e >= 0 THEN d * Pow2(e) ELSE d
        l1   == (num * Pow2(16)) \div den
        r1   == (num * Pow2(16)) % den
        l2   == (r1 * Limb) \div den
        r2   == (r1 * Limb) % den
        l3   == (r2 * Limb) \div den
        r3   == (r2 * Limb) % den
        up   == 2 * r3 > den \/ (2 * r3 = den /\ l3 % 2 = 1)
    IN  IF up THEN fnext(sign, e, <<l1, l2, l3>>)
        ELSE [sign |-> sign, exp |-> e, m |-> <<l1, l2, l3>>]

\* i * f for an integer 0 <= i < 128 and a double f >= 0, rounded to the
\* nearest double, ties to even (float multiplication)
fmul(i, f) ==
    IF i = 0 \/ f.sign = 0 THEN fzero
    ELSE
    LET p3   == f.m[3] * i
        p2   == f.m[2] * i + p3 \div Limb
        top  == f.m[1] * i + p2 \div Limb
        q3   == p3 % Limb
        q2   == p2 % Limb
        s    == CHOOSE x \in 0..7 : Pow2(16 + x) <= top /\ top < Pow2(17 + x)
        n1   == top \div Pow2(s)
        n2   == q2 \div Pow2(s) + (top % Pow2(s)) * Pow2(18 - s)
        n3   == q3 \div Pow2(s) + (q2 % Pow2(s)) * Pow2(18 - s)
        rem  == q3 % Pow2(s)
        up   == /\ s > 0
                /\ \/ 2 * rem > Pow2(s)
                   \/ (2 * rem = Pow2(s) /\ n3 % 2 = 1)
    IN  IF up THEN fnext(f.sign, f.exp + s, <<n1, n2, n3>>)
        ELSE [sign |-> f.sign, exp |-> f.exp + s, m |-> <<n1, n2, n3>>]

\* x < y on doubles that are zero or positive, or negative against those
flt(x, y) ==
    IF x.sign # y.sign THEN x.sign < y.sign
    ELSE IF x.sign = 0 THEN FALSE
    ELSE LET a == IF x.sign = 1 THEN x ELSE y
             b == IF x.sign = 1 THEN y ELSE x
         IN  \/ a.exp < b.exp
             \/ /\ a.exp = b.exp
                /\ \/ a.m[1] < b.m[1]
                   \/ (a.m[1] = b.m[1] /\ a.m[2] < b.m[2])
                   \/ (a.m[1] = b.m[1] /\ a.m[2] = b.m[2] /\ a.m[3] < b.m[3])

fle(x, y) == x = y \/ flt(x, y)

fone == fdiv(1, 1)

\* ------------------------------------------------------------- CSV batches
\* The optional columns of a row are filled or empty according to the score,
\* so that both shapes of each column occur.
CsvRow(t, s) ==
    [tower_id |-> t, anomaly_score |-> s,
     link_pred_error |-> IF s % 2 = 0 THEN None ELSE Some(s),
     neighbor_inconsistency |-> IF s % 2 = 0 THEN Some(s) ELSE None]

SeqsUpTo(S, n) == UNION {[1..k -> S] : k \in 0..n}

\* The score the upstream model gives tower t in run r: the two runs score
\* every tower differently.
ScoreOf(t, r) == IF r = "r1" THEN t % 2 ELSE (t + 1) % 2

\* The CSV files of run r: any sequence of towers, a tower possibly twice.
Batches(r) ==
    {[i \in 1..Len(ts) |-> CsvRow(ts[i], ScoreOf(ts[i], r))] :
        ts \in SeqsUpTo(1..MaxTower, MaxBatch)}

\* The CSV files of the interleaved importers: no tower_id occurs twice.
ConcBatches(r) ==
    {b \in Batches(r) :
        \A i, j \in 1..Len(b) : i # j => b[i].tower_id # b[j].tower_id}

\* Batches of the ranking runs: longer, with more score values.
RankBatches ==
    SeqsUpTo({CsvRow(t, s) : t \in 1..MaxRankLen, s \in 0..MaxRankScore},
             MaxRankLen)

\* Batches behind the histogram: tower i carries the i-th score; the scores
\* k / ScoreDen reach below 0 and above 1, which the importer accepts.
HistBatches ==
    {[i \in 1..Len(ks) |-> CsvRow(i, ks[i])] :
        ks \in SeqsUpTo((0 - 1)..(ScoreDen + 1), MaxHistLen)}

\* Batches behind the statistics: towers 1..n scored 0, 1, 2, ... in order,
\* where any of the three topmost towers may repeat the score of the tower
\* before it.
StatsBatches ==
    UNION {
        {[i \in 1..n |->
             CsvRow(i, (i - 1) - Cardinality({j \in tied : j <= i /\ j >= 2}))] :
           tied \in SUBSET {n - 2, n - 1, n}} :
        n \in 0..MaxStatsLen}

\* ------------------------------------------------------- percentile ranker
\* The element of a one-element set. The({e : v \in {x}}) is e with v bound
\* to the value of x, computed once.
The(S) == CHOOSE r \in S : TRUE

\* numpy argsort: the sorting permutation, equal values kept in their order.
\* Element i goes to the position after the smaller values and the equal
\* values before it.
argsort(a) ==
    LET n == Len(a)
    IN  The({[k \in 1..n |-> CHOOSE i \in 1..n : pos[i] = k] :
             pos \in {[i \in 1..n |->
                         Cardinality({j \in 1..n : a[j] < a[i]}) +
                         Cardinality({j \in 1..(i - 1) : a[j] = a[i]}) + 1]}})

\* rankdata with method="min": every tied value gets the lowest rank.
rankdata2Min(a) ==
    LET n == Len(a)
    IN  [i \in 1..n |->
            2 * (Cardinality({j \in 1..n : a[j] < a[i]}) + 1)]

\* rankdata with method="ordinal": ties are ranked in order of occurrence.
rankdata2Ordinal(a) ==
    LET n      == Len(a)
        sorter == argsort(a)
    IN  [i \in 1..n |-> 2 * (CHOOSE k \in 1..n : sorter[k] = i)]

\* scipy.stats.rankdata(a, method="average"), as twice the rank:
\* 2 * 0.5 * (count[dense] + count[dense - 1] + 1), where count[g] is the
\* 0-based position at which group g + 1 starts.
rankdata2(a) ==
    LET n == Len(a)
    IN  The({
        The({
        The({
        The({
        The({
        The({
        The({[i \in 1..n |-> count[dense[i]] + count[dense[i] - 1] + 1] :
            count \in {[g \in 0..n |->
                IF \E k \in 1..n : obs[k] /\ cumsum[k] = g + 1
                THEN (CHOOSE k \in 1..n : obs[k] /\ cumsum[k] = g + 1) - 1
                ELSE n]}}) :
            dense \in {[i \in 1..n |-> cumsum[inv[i]]]}}) :
            cumsum \in {[k \in 1..n |-> Cardinality({j \in 1..k : obs[j]})]}}) :
            obs \in {[k \in 1..n |->
                        IF k = 1 THEN TRUE ELSE arr[k] # arr[k - 1]]}}) :
            arr \in {[k \in 1..n |-> a[sorter[k]]]}}) :
            inv \in {[i \in 1..n |-> CHOOSE k \in 1..n : sorter[k] = i]}}) :
            sorter \in {argsort(a)}})

\* df["percentile"] = rankdata(...) / len(df) * 100
Percentiles(scores) ==
    The({[i \in 1..Len(scores) |-> Frac(r2[i] * 100, 2 * Len(scores))] :
         r2 \in {rankdata2(scores)}})

\* PrepareData that ranks the sorted scores and assigns the percentiles by
\* position, not by row.
PrepareDataMisaligned(rows, model_version, run_id) ==
    LET scores == [i \in 1..Len(rows) |-> rows[i].anomaly_score]
        sorter == argsort(scores)
        pct    == Percentiles([k \in 1..Len(rows) |-> scores[sorter[k]]])
    IN  [i \in 1..Len(rows) |->
            [tower_id |-> rows[i].tower_id,
             model_version |-> model_version,
             run_id |-> run_id,
             anomaly_score |-> rows[i].anomaly_score,
             link_pred_error |-> rows[i].link_pred_error,
             neighbor_inconsistency |-> rows[i].neighbor_inconsistency,
             percentile |-> pct[i]]]

\* the list comprehension building `data`
PrepareData(rows, model_version, run_id) ==
    The({[i \in 1..Len(rows) |->
             [tower_id |-> rows[i].tower_id,
              model_version |-> model_version,
              run_id |-> run_id,
              anomaly_score |-> rows[i].anomaly_score,
              link_pred_error |-> rows[i].link_pred_error,
              neighbor_inconsistency |-> rows[i].neighbor_inconsistency,
              percentile |-> pct[i]]] :
         pct \in {Percentiles([i \in 1..Len(rows) |-> rows[i].anomaly_score])}})

\* ------------------------------------------------------------------ tables
\* A stored row: the tuple of `data` plus the columns the table fills in.
StoredRow(d, id, created_at) ==
    [id |-> id, tower_id |-> d.tower_id, model_version |-> d.model_version,
     run_id |-> d.run_id, anomaly_score |-> d.anomaly_score,
     link_pred_error |-> d.link_pred_error,
     neighbor_inconsistency |-> d.neighbor_inconsistency,
     percentile |-> d.percentile, created_at |-> created_at]

\* The fields of a ScoreRecord other than created_at and the surrogate id.
Content(r) ==
    [tower_id |-> r.tower_id, model_version |-> r.model_version,
     run_id |-> r.run_id, anomaly_score |-> r.anomaly_score,
     link_pred_error |-> r.link_pred_error,
     neighbor_inconsistency |-> r.neighbor_inconsistency,
     percentile |-> r.percentile]

Contents(rows) == {Content(r) : r \in rows}

OfVersion(rows, v) == {r \in rows : r.model_version = v}

SameKey(r, d) == r.tower_id = d.tower_id /\ r.model_version = d.model_version

InTx(p) == pc[p] \in {"deleting", "inserting"}

\* ------------------------------------------------------------------- state
\* The importer and the histogram read neither table towers nor table
\* tower_providers.
NoTowers == <<>>

\* The rows a committed import of a batch of distinct tower_ids leaves.
ImportedRows(rows, v, r, t) ==
    The({{StoredRow(d[i], <<t, i>>, t) : i \in 1..Len(rows)} :
         d \in {PrepareData(rows, v, r)}})

Init ==
    /\ store = {}
    /\ tableExists = FALSE
    /\ clock = 0
    /\ pc = [p \in Procs |-> "idle"]
    /\ csv = [p \in Procs |-> <<>>]
    /\ mv = [p \in Procs |-> "v1"]
    /\ rid = [p \in Procs |-> "r1"]
    /\ data = [p \in Procs |-> <<>>]
    /\ snap = [p \in Procs |-> {}]
    /\ del = [p \in Procs |-> {}]
    /\ ins = [p \in Procs |-> {}]
    /\ idx = [p \in Procs |-> 1]
    /\ txid = [p \in Procs |-> 0]
    /\ outcome = [p \in Procs |-> "none"]
    /\ undone = [p \in Procs |-> FALSE]
    /\ pre = [p \in Procs |-> {}]
    /\ overlapped = [p \in Procs |-> FALSE]
    /\ lastImport = None
    /\ resp = None
    /\ towers = NoTowers
    /\ tower_providers = <<>>
    /\ source = [p \in Procs |-> "ok"]

\* The interleaved importers start on a table that is empty or holds one
\* earlier import of version "v1".
ConcInit ==
    /\ \E b \in {<<>>, <<CsvRow(1, ScoreOf(1, "r1"))>>} :
          store = ImportedRows(b, "v1", "r1", 0)
    /\ tableExists = (store # {})
    /\ clock = 0
    /\ pc = [p \in Procs |-> "idle"]
    /\ csv = [p \in Procs |-> <<>>]
    /\ mv = [p \in Procs |-> "v1"]
    /\ rid = [p \in Procs |-> "r1"]
    /\ data = [p \in Procs |-> <<>>]
    /\ snap = [p \in Procs |-> {}]
    /\ del = [p \in Procs |-> {}]
    /\ ins = [p \in Procs |-> {}]
    /\ idx = [p \in Procs |-> 1]
    /\ txid = [p \in Procs |-> 0]
    /\ outcome = [p \in Procs |-> "none"]
    /\ undone = [p \in Procs |-> FALSE]
    /\ pre = [p \in Procs |-> {}]
    /\ overlapped = [p \in Procs |-> FALSE]
    /\ lastImport = None
    /\ resp = None
    /\ towers = NoTowers
    /\ tower_providers = <<>>
    /\ source = [p \in Procs |-> "ok"]

\* ----------------------------------------------------------------- actions
\* main() up to the call of import_scores: parse the arguments, check that
\* the file exists, connect, and create_table() (CREATE TABLE IF NOT EXISTS,
\* committed on its own).  An importer process runs main() once.
MainFrom(p, rows, v, r, src) ==
    /\ pc[p] = "idle"
    /\ outcome[p] = "none"
    /\ clock' = clock + 1
    /\ pc' = [pc EXCEPT ![p] = "created"]
    /\ tableExists' = TRUE
    /\ csv' = [csv EXCEPT ![p] = rows]
    /\ mv' = [mv EXCEPT ![p] = v]
    /\ rid' = [rid EXCEPT ![p] = r]
    /\ data' = [data EXCEPT ![p] = <<>>]
    /\ snap' = [snap EXCEPT ![p] = {}]
    /\ del' = [del EXCEPT ![p] = {}]
    /\ ins' = [ins EXCEPT ![p] = {}]
    /\ idx' = [idx EXCEPT ![p] = 1]
    /\ txid' = [txid EXCEPT ![p] = clock + 1]
    /\ outcome' = [outcome EXCEPT ![p] = "running"]
    /\ undone' = undone
    /\ pre' = [pre EXCEPT ![p] = store]
    /\ overlapped' = [overlapped EXCEPT ![p] = FALSE]
    /\ source' = [source EXCEPT ![p] = src]
    /\ UNCHANGED <<store, lastImport, resp,
                   towers, tower_providers>>

\* main() given a file that can be read and parsed
Main(p, rows, v, r) == MainFrom(p, rows, v, r, "ok")

\* main() given a path at which no file exists: the message and sys.exit(1),
\* before the connection is made.
MainNoFile(p, v, r) ==
    /\ pc[p] = "idle"
    /\ outcome[p] = "none"
    /\ clock' = clock + 1
    /\ csv' = [csv EXCEPT ![p] = <<>>]
    /\ mv' = [mv EXCEPT ![p] = v]
    /\ rid' = [rid EXCEPT ![p] = r]
    /\ txid' = [txid EXCEPT ![p] = clock + 1]
    /\ outcome' = [outcome EXCEPT ![p] = "error"]
    /\ pre' = [pre EXCEPT ![p] = store]
    /\ source' = [source EXCEPT ![p] = "missing"]
    /\ UNCHANGED <<store, tableExists, pc, data, snap, del, ins, idx, undone,
                   overlapped, lastImport, resp, towers, tower_providers>>

\* import_scores(): read the CSV, rank it, build `data`.
ReadCsv(p) ==
    /\ pc[p] = "created"
    /\ source[p] = "ok"
    /\ pc' = [pc EXCEPT ![p] = "loaded"]
    /\ data' = [data EXCEPT ![p] = PrepareData(csv[p], mv[p], rid[p])]
    /\ UNCHANGED <<store, tableExists, clock, csv, mv, rid, snap, del, ins,
                   idx, txid, outcome, undone, pre, overlapped, lastImport, resp,
                   towers, tower_providers, source>>

\* DeleteStart with a DELETE that has no WHERE clause.
DeleteStartAll(p) ==
    /\ pc[p] = "loaded"
    /\ pc' = [pc EXCEPT ![p] = "deleting"]
    /\ snap' = [snap EXCEPT ![p] = store]
    /\ overlapped' = overlapped
    /\ UNCHANGED <<store, tableExists, clock, csv, mv, rid, data, del, ins,
                   idx, txid, outcome, undone, pre, lastImport, resp,
                   towers, tower_providers, source>>

\* DeleteStart with the DELETE keyed by run_id as well as model_version.
DeleteStartByRun(p) ==
    /\ pc[p] = "loaded"
    /\ pc' = [pc EXCEPT ![p] = "deleting"]
    /\ snap' = [snap EXCEPT ![p] =
                   {r \in OfVersion(store, mv[p]) : r.run_id = rid[p]}]
    /\ overlapped' = overlapped
    /\ UNCHANGED <<store, tableExists, clock, csv, mv, rid, data, del, ins,
                   idx, txid, outcome, undone, pre, lastImport, resp,
                   towers, tower_providers, source>>

\* The DELETE statement starts: it opens the transaction and takes its
\* snapshot of the committed rows of the version.
DeleteStart(p) ==
    /\ pc[p] = "loaded"
    /\ pc' = [pc EXCEPT ![p] = "deleting"]
    /\ snap' = [snap EXCEPT ![p] = OfVersion(store, mv[p])]
    /\ overlapped' =
         [q \in Procs |->
            IF \E o \in Procs \ {q} :
                  /\ p \in {q, o}
                  /\ InTx(IF o = p THEN q ELSE o)
                  /\ mv[o] = mv[q]
            THEN TRUE ELSE overlapped[q]]
    /\ UNCHANGED <<store, tableExists, clock, csv, mv, rid, data, del, ins,
                   idx, txid, outcome, undone, pre, lastImport, resp,
                   towers, tower_providers, source>>

\* p's running statement waits for a row lock held by q's open transaction.
WaitsOn(p, q) ==
    /\ p # q
    /\ InTx(q)
    /\ \/ /\ pc[p] = "deleting"
          /\ \E r \in del[q] : \E s \in snap[p] : s.id = r.id
       \/ /\ pc[p] = "inserting"
          /\ idx[p] <= Len(data[p])
          /\ \E r \in ins[q] \cup del[q] : SameKey(r, data[p][idx[p]])

\* DeleteFinish of a DELETE that matches no row.
DeleteFinishNone(p) ==
    /\ pc[p] = "deleting"
    /\ \A q \in Procs : ~WaitsOn(p, q)
    /\ del' = del
    /\ pc' = [pc EXCEPT ![p] = "inserting"]
    /\ UNCHANGED <<store, tableExists, clock, csv, mv, rid, data, snap, ins,
                   idx, txid, outcome, undone, pre, overlapped, lastImport, resp,
                   towers, tower_providers, source>>

\* The DELETE statement ends: it removes the rows of its snapshot that are
\* still there, following a row that was updated meanwhile to its new version.
DeleteFinish(p) ==
    /\ pc[p] = "deleting"
    /\ \A q \in Procs : ~WaitsOn(p, q)
    /\ del' = [del EXCEPT ![p] =
                  {r \in store : \E s \in snap[p] : s.id = r.id}]
    /\ pc' = [pc EXCEPT ![p] = "inserting"]
    /\ UNCHANGED <<store, tableExists, clock, csv, mv, rid, data, snap, ins,
                   idx, txid, outcome, undone, pre, overlapped, lastImport, resp,
                   towers, tower_providers, source>>

\* Rollback on a connection in autocommit mode: the DELETE stays.
RollbackKeepsDelete(p, how) ==
    /\ pc' = [pc EXCEPT ![p] = "idle"]
    /\ outcome' = [outcome EXCEPT ![p] = how]
    /\ undone' = [undone EXCEPT ![p] = del[p] \cup ins[p] # {}]
    /\ idx' = [idx EXCEPT ![p] = 1]
    /\ store' = store \ del[p]
    /\ snap' = [snap EXCEPT ![p] = {}]
    /\ del' = [del EXCEPT ![p] = {}]
    /\ ins' = [ins EXCEPT ![p] = {}]
    /\ UNCHANGED <<tableExists, clock, csv, mv, rid, data, txid,
                   pre, overlapped, lastImport, resp,
                   towers, tower_providers, source>>

\* The transaction is rolled back (conn.close() in main's finally).
Rollback(p, how) ==
    /\ pc' = [pc EXCEPT ![p] = "idle"]
    /\ outcome' = [outcome EXCEPT ![p] = how]
    /\ undone' = [undone EXCEPT ![p] = del[p] \cup ins[p] # {}]
    /\ idx' = [idx EXCEPT ![p] = 1]
    /\ snap' = [snap EXCEPT ![p] = {}]
    /\ del' = [del EXCEPT ![p] = {}]
    /\ ins' = [ins EXCEPT ![p] = {}]
    /\ UNCHANGED <<store, tableExists, clock, csv, mv, rid, data, txid,
                   pre, overlapped, lastImport, resp,
                   towers, tower_providers, source>>

\* InsertRow as a plain INSERT into a table without the unique key.
InsertRowPlain(p) ==
    /\ pc[p] = "inserting"
    /\ idx[p] <= Len(data[p])
    /\ ins' = [ins EXCEPT ![p] = ins[p] \cup
                  {StoredRow(data[p][idx[p]], <<txid[p], idx[p]>>, txid[p])}]
    /\ idx' = [idx EXCEPT ![p] = idx[p] + 1]
    /\ UNCHANGED <<store, tableExists, clock, pc, csv, mv, rid, data, snap,
                   del, txid, outcome, undone, pre, overlapped, lastImport, resp,
                   towers, tower_providers, source>>

\* execute_values sends `data` in statements of page_size rows; this is the
\* INSERT ... ON CONFLICT (tower_id, model_version) DO UPDATE of one row.
InsertRow(p) ==
    /\ pc[p] = "inserting"
    /\ idx[p] <= Len(data[p])
    /\ \A q \in Procs : ~WaitsOn(p, q)
    /\ LET i    == idx[p]
           d    == data[p][i]
           own  == {r \in ins[p] : SameKey(r, d)}
           old  == {r \in store \ del[p] : SameKey(r, d)}
           sameStatement ==
               \E j \in 1..(i - 1) :
                   /\ (j - 1) \div page_size = (i - 1) \div page_size
                   /\ data[p][j].tower_id = d.tower_id
       IN  IF sameStatement
           THEN \* "ON CONFLICT DO UPDATE command cannot affect row a second time"
                Rollback(p, "error")
           ELSE /\ IF own # {}
                   THEN /\ ins' = [ins EXCEPT ![p] = (ins[p] \ own) \cup
                              {StoredRow(d, r.id, txid[p]) : r \in own}]
                        /\ del' = del
                   ELSE IF old # {}
                   THEN /\ ins' = [ins EXCEPT ![p] = ins[p] \cup
                              {StoredRow(d, r.id, txid[p]) : r \in old}]
                        /\ del' = [del EXCEPT ![p] = del[p] \cup old]
                   ELSE /\ ins' = [ins EXCEPT ![p] = ins[p] \cup
                              {StoredRow(d, <<txid[p], i>>, txid[p])}]
                        /\ del' = del
                /\ idx' = [idx EXCEPT ![p] = i + 1]
                /\ UNCHANGED <<store, tableExists, clock, pc, csv, mv, rid,
                               data, snap, txid, outcome, undone, pre, overlapped,
                               lastImport, resp,
                   towers, tower_providers, source>>

\* Commit that publishes the inserted rows but not the deletions.
CommitKeepsDeleted(p) ==
    /\ pc[p] = "inserting"
    /\ idx[p] > Len(data[p])
    /\ store' = store \cup ins[p]
    /\ pc' = [pc EXCEPT ![p] = "idle"]
    /\ outcome' = [outcome EXCEPT ![p] = "ok"]
    /\ undone' = undone
    /\ snap' = [snap EXCEPT ![p] = {}]
    /\ del' = [del EXCEPT ![p] = {}]
    /\ ins' = [ins EXCEPT ![p] = {}]
    /\ lastImport' =
         Some([csv |-> csv[p], mv |-> mv[p], rid |-> rid[p],
               repeat |-> /\ lastImport # None
                          /\ lastImport[1].csv = csv[p]
                          /\ lastImport[1].mv = mv[p]
                          /\ lastImport[1].rid = rid[p]])
    /\ UNCHANGED <<tableExists, clock, csv, mv, rid, data, idx, txid, pre,
                   overlapped, resp,
                   towers, tower_providers, source>>

\* conn.commit()
Commit(p) ==
    /\ pc[p] = "inserting"
    /\ idx[p] > Len(data[p])
    /\ store' = (store \ del[p]) \cup ins[p]
    /\ pc' = [pc EXCEPT ![p] = "idle"]
    /\ outcome' = [outcome EXCEPT ![p] = "ok"]
    /\ undone' = undone
    /\ snap' = [snap EXCEPT ![p] = {}]
    /\ del' = [del EXCEPT ![p] = {}]
    /\ ins' = [ins EXCEPT ![p] = {}]
    /\ lastImport' =
         Some([csv |-> csv[p], mv |-> mv[p], rid |-> rid[p],
               repeat |-> /\ lastImport # None
                          /\ lastImport[1].csv = csv[p]
                          /\ lastImport[1].mv = mv[p]
                          /\ lastImport[1].rid = rid[p]])
    /\ UNCHANGED <<tableExists, clock, csv, mv, rid, data, idx, txid, pre,
                   overlapped, resp,
                   towers, tower_providers, source>>

\* The process dies or the store fails inside the transaction.
Crash(p) ==
    /\ InTx(p)
    /\ Rollback(p, "crash")

\* PostgreSQL's deadlock detector aborts one transaction of a wait cycle.
DeadlockAbort(p) ==
    /\ \E q \in Procs : WaitsOn(p, q) /\ WaitsOn(q, p)
    /\ Rollback(p, "error")

\* The importers are alike: "a" is the one that starts first.
StartsInOrder(p) == p = "a" \/ outcome["a"] # "none"

StartImport(p) ==
    /\ StartsInOrder(p)
    /\ pc[p] = "idle" /\ outcome[p] = "none"
    /\ \E v \in Versions, r \in Runs : \E rows \in ConcBatches(r) : Main(p, rows, v, r)

\* Importers run at any time, their steps interleaved.
Next ==
    \E p \in Procs :
        \/ StartImport(p)
        \/ ReadCsv(p)
        \/ DeleteStart(p)
        \/ DeleteFinish(p)
        \/ InsertRow(p)
        \/ Commit(p)
        \/ Crash(p)
        \/ DeadlockAbort(p)

Spec == ConcInit /\ [][Next]_vars

\* One importer at a time (the single-writer discipline).
SeqStartImport(p) ==
    /\ StartsInOrder(p)
    /\ outcome[p] = "none"
    /\ pc[p] = "idle" /\ outcome[p] = "none"
    /\ \A q \in Procs : pc[q] = "idle"
    /\ \E v \in Versions, r \in Runs : \E rows \in Batches(r) : Main(p, rows, v, r)

SeqNext ==
    \E p \in Procs :
        \/ SeqStartImport(p)
        \/ ReadCsv(p)
        \/ DeleteStart(p)
        \/ DeleteFinish(p)
        \/ InsertRow(p)
        \/ Commit(p)
        \/ Crash(p)

SpecSeq == Init /\ [][SeqNext]_vars

\* ------------------------------------------------------ unusable sources
\* What a run may find at the path: a CSV file it can read, nothing, a file
\* pd.read_csv cannot read, or a file with a score that float() refuses.
Sources == {"ok", "missing", "unreadable", "nonnumeric"}

\* import_scores() raises in pd.read_csv or in the list comprehension that
\* builds `data`; main's finally closes the connection.
ReadCsvFails(p) ==
    /\ pc[p] = "created"
    /\ source[p] \in {"unreadable", "nonnumeric"}
    /\ Rollback(p, "error")

SourceStartImport(p) ==
    /\ StartsInOrder(p)
    /\ pc[p] = "idle" /\ outcome[p] = "none"
    /\ \A q \in Procs : pc[q] = "idle"
    /\ \E v \in Versions, r \in Runs, src \in Sources :
          IF src = "missing" THEN MainNoFile(p, v, r)
          ELSE \E rows \in IF src = "unreadable" THEN {<<>>}
                           ELSE IF src = "nonnumeric" THEN Batches(r) \ {<<>>}
                           ELSE Batches(r) :
                  MainFrom(p, rows, v, r, src)

\* One importer at a time, given any kind of source.
SourceNext ==
    \E p \in Procs :
        \/ SourceStartImport(p)
        \/ ReadCsv(p)
        \/ ReadCsvFails(p)
        \/ DeleteStart(p)
        \/ DeleteFinish(p)
        \/ InsertRow(p)
        \/ Commit(p)

SpecSource == Init /\ [][SourceNext]_vars

\* ------------------------------------------------- one import, ranked
\* The state main() leaves when it calls import_scores on an empty table.
RankInit ==
    /\ store = {}
    /\ tableExists = TRUE
    /\ clock = 1
    /\ pc = [p \in Procs |-> IF p = "a" THEN "created" ELSE "idle"]
    /\ \E rows \in RankBatches : csv = [p \in Procs |-> IF p = "a" THEN rows ELSE <<>>]
    /\ mv = [p \in Procs |-> "v1"]
    /\ rid = [p \in Procs |-> "r1"]
    /\ data = [p \in Procs |-> <<>>]
    /\ snap = [p \in Procs |-> {}]
    /\ del = [p \in Procs |-> {}]
    /\ ins = [p \in Procs |-> {}]
    /\ idx = [p \in Procs |-> 1]
    /\ txid = [p \in Procs |-> IF p = "a" THEN 1 ELSE 0]
    /\ outcome = [p \in Procs |-> IF p = "a" THEN "running" ELSE "none"]
    /\ undone = [p \in Procs |-> FALSE]
    /\ pre = [p \in Procs |-> {}]
    /\ overlapped = [p \in Procs |-> FALSE]
    /\ lastImport = None
    /\ resp = None
    /\ towers = NoTowers
    /\ tower_providers = <<>>
    /\ source = [p \in Procs |-> "ok"]

RankNext ==
    \/ ReadCsv("a")
    \/ DeleteStart("a")
    \/ DeleteFinish("a")
    \/ InsertRow("a")
    \/ Commit("a")

SpecRank == RankInit /\ [][RankNext]_vars

\* ------------------------------------------------------------- histogram
RECURSIVE SumCounts(_)
SumCounts(buckets) ==
    IF buckets = <<>> THEN 0
    ELSE buckets[1].count + SumCounts(Tail(buckets))

\* round(i * bucket_size, 4) in units of 0.0001: for every i <= n <= MaxBuckets
\* the double i * (1.0 / n) rounds as the exact i / n does, halves going to
\* the even digit
Round4(i, n) ==
    LET q == (i * 10000) \div n
        r == (i * 10000) % n
    IN  IF 2 * r < n THEN q
        ELSE IF 2 * r > n THEN q + 1
        ELSE IF q % 2 = 0 THEN q ELSE q + 1

\* The double a stored score is: the decimal k / ScoreDen of the CSV, read by
\* pd.read_csv and kept as a double by float(), the column and the JSON reply.
ScoreFloat(k) == fdiv(k, ScoreDen)

\* the doubles of the scores the batches hold
score_floats == [k \in (0 - 1)..(ScoreDen + 1) |-> ScoreFloat(k)]

\* bucket_size = 1.0 / buckets, and the edges i * bucket_size for i in 0..buckets
bucket_edges ==
    [n \in MinBuckets..MaxBuckets |-> [i \in 0..n |-> fmul(i, fdiv(1, n))]]

\* get_anomaly_distribution(buckets, model_version); the rounded edges are
\* in units of 0.0001
Distribution(rows, buckets) ==
    IF rows = {} THEN <<>>
    ELSE LET s == [r \in rows |-> score_floats[r.anomaly_score]]
         IN  [b \in 1..buckets |->
                LET i == b - 1
                    bucket_start == bucket_edges[buckets][i]
                    bucket_end == bucket_edges[buckets][i + 1]
                    inside == {r \in rows : /\ fle(bucket_start, s[r])
                                            /\ flt(s[r], bucket_end)}
                    atMax  == {r \in rows : s[r] = fone}
                IN  [bucket_start |-> Round4(i, buckets),
                     bucket_end |-> Round4(i + 1, buckets),
                     count |-> Cardinality(inside) +
                               (IF i = buckets - 1 THEN Cardinality(atMax) ELSE 0)]]

\* The handlers keep no state between requests, so each behaviour follows a
\* single request.
GetAnomalyDistribution(buckets, v) ==
    /\ resp = None
    /\ resp' = Some([op |-> "distribution", model_version |-> v,
                     buckets |-> buckets,
                     body |-> Distribution(OfVersion(store, v), buckets)])
    /\ UNCHANGED <<store, tableExists, clock, pc, csv, mv, rid, data, snap,
                   del, ins, idx, txid, outcome, undone, pre, overlapped, lastImport,
                   towers, tower_providers, source>>

\* The table after one import of version "v1" and at most one of "v2".
HistInit ==
    /\ \E b1 \in HistBatches, b2 \in {<<>>, <<CsvRow(1, 0)>>} :
          store = ImportedRows(b1, "v1", "r1", 1) \cup
                  ImportedRows(b2, "v2", "r1", 2)
    /\ tableExists = TRUE
    /\ clock = 2
    /\ pc = [p \in Procs |-> "idle"]
    /\ csv = [p \in Procs |-> <<>>]
    /\ mv = [p \in Procs |-> "v1"]
    /\ rid = [p \in Procs |-> "r1"]
    /\ data = [p \in Procs |-> <<>>]
    /\ snap = [p \in Procs |-> {}]
    /\ del = [p \in Procs |-> {}]
    /\ ins = [p \in Procs |-> {}]
    /\ idx = [p \in Procs |-> 1]
    /\ txid = [p \in Procs |-> 0]
    /\ outcome = [p \in Procs |-> "none"]
    /\ undone = [p \in Procs |-> FALSE]
    /\ pre = [p \in Procs |-> {}]
    /\ overlapped = [p \in Procs |-> FALSE]
    /\ lastImport = None
    /\ resp = None
    /\ towers = NoTowers
    /\ tower_providers = <<>>
    /\ source = [p \in Procs |-> "ok"]

HistNext ==
    \E buckets \in MinBuckets..MaxBuckets, v \in Versions :
        GetAnomalyDistribution(buckets, v)

SpecHist == HistInit /\ [][HistNext]_vars

\* ------------------------------------------------------------ statistics
\* sum(xs) of a sequence of numbers
RECURSIVE Sum(_)
Sum(xs) == IF xs = <<>> THEN 0 ELSE Head(xs) + Sum(Tail(xs))

\* the rows of a set in some order
RECURSIVE AsSeq(_)
AsSeq(S) ==
    IF S = {} THEN <<>>
    ELSE LET x == CHOOSE y \in S : TRUE
         IN  <<x>> \o AsSeq(S \ {x})

\* The aggregate fields Hasura computes over a set of rows: avg, min and max
\* are the scores as fractions, stddev (PostgreSQL's sample deviation) is
\* held by the variance it is the root of; all are null over no rows, stddev
\* also over one row.
Aggregate(rows) ==
    The({
        LET n  == Len(x)
            s  == Sum(x)
            lo == CHOOSE i \in 1..n : \A j \in 1..n : x[i] <= x[j]
            hi == CHOOSE i \in 1..n : \A j \in 1..n : x[i] >= x[j]
        IN  [count |-> n,
             avg |-> IF n = 0 THEN None ELSE Some(Frac(s, n * ScoreDen)),
             stddev |-> IF n < 2 THEN None
                        ELSE Some([sqrt |->
                                 Frac(n * Sum([i \in 1..n |-> x[i] * x[i]]) - s * s,
                                      n * (n - 1) * ScoreDen * ScoreDen)]),
             min |-> IF n = 0 THEN None ELSE Some(Frac(x[lo], ScoreDen)),
             max |-> IF n = 0 THEN None ELSE Some(Frac(x[hi], ScoreDen))] :
        x \in {The({[i \in 1..Len(rs) |-> rs[i].anomaly_score] :
                    rs \in {AsSeq(rows)}})}})

\* OrDefault that passes the null on
OrDefaultMissing(x, zero, default) ==
    IF x = None THEN None ELSE x[1]

\* `x or default`: the default replaces None and a zero
OrDefault(x, zero, default) ==
    IF x = None \/ x[1] = zero THEN default ELSE x[1]

\* AbovePercentile counting the percentiles at or above the threshold
AbovePercentileInclusive(rows, p) ==
    Cardinality({r \in rows : ~FracLess(r.percentile, <<p, 1>>)})

\* the aggregate count where percentile: {_gt: p}; the stored doubles
\* rank / N * 100 compare with 95 and 99 as the fractions do, being exactly
\* 95.0 and 99.0 where the fraction is 95 or 99
AbovePercentile(rows, p) ==
    Cardinality({r \in rows : FracLess(<<p, 1>>, r.percentile)})

\* get_anomaly_stats(model_version)
AnomalyStats(rows, model_version, first) ==
    LET agg == Aggregate(rows)
    IN  [total_scored |-> agg.count,
         mean_score |-> OrDefault(agg.avg, <<0, 1>>, <<0, 1>>),
         std_score |-> OrDefault(agg.stddev, [sqrt |-> <<0, 1>>], [sqrt |-> <<0, 1>>]),
         min_score |-> OrDefault(agg.min, <<0, 1>>, <<0, 1>>),
         max_score |-> OrDefault(agg.max, <<0, 1>>, <<1, 1>>),
         above_95th_percentile |-> AbovePercentile(rows, 95),
         above_99th_percentile |-> AbovePercentile(rows, 99),
         model_version |-> model_version,
         run_id |-> first]

\* The GetAnomalyStats query and the reply built from it; `limit: 1` with no
\* order returns any one row of the version.
GetAnomalyStats(v) ==
    /\ resp = None
    /\ LET rows == OfVersion(store, v)
       IN  \E first \in {Some(r.run_id) : r \in rows} \cup
                         (IF rows = {} THEN {None} ELSE {}) :
               resp' = Some([op |-> "stats", model_version |-> v,
                             body |-> AnomalyStats(rows, v, first)])
    /\ UNCHANGED <<store, tableExists, clock, pc, csv, mv, rid, data, snap,
                   del, ins, idx, txid, outcome, undone, pre, overlapped,
                   lastImport, towers, tower_providers, source>>

\* The table after one import of version "v1".
StatsInit ==
    /\ \E b \in StatsBatches : store = ImportedRows(b, "v1", "r1", 1)
    /\ tableExists = TRUE
    /\ clock = 1
    /\ towers = NoTowers
    /\ tower_providers = <<>>
    /\ source = [p \in Procs |-> "ok"]
    /\ pc = [p \in Procs |-> "idle"]
    /\ csv = [p \in Procs |-> <<>>]
    /\ mv = [p \in Procs |-> "v1"]
    /\ rid = [p \in Procs |-> "r1"]
    /\ data = [p \in Procs |-> <<>>]
    /\ snap = [p \in Procs |-> {}]
    /\ del = [p \in Procs |-> {}]
    /\ ins = [p \in Procs |-> {}]
    /\ idx = [p \in Procs |-> 1]
    /\ txid = [p \in Procs |-> 0]
    /\ outcome = [p \in Procs |-> "none"]
    /\ undone = [p \in Procs |-> FALSE]
    /\ pre = [p \in Procs |-> {}]
    /\ overlapped = [p \in Procs |-> FALSE]
    /\ lastImport = None
    /\ resp = None

StatsNext == \E v \in Versions : GetAnomalyStats(v)

SpecStats == StatsInit /\ [][StatsNext]_vars

\* ------------------------------------------------------ band distribution
\* sorted(...) of a set of integers
RECURSIVE sorted(_)
sorted(S) ==
    IF S = {} THEN <<>>
    ELSE LET m == CHOOSE x \in S : \A y \in S : x <= y
         IN  <<m>> \o sorted(S \ {m})

\* The rows of the tower_providers query: each association row carries the
\* band count of its tower (tower.tower_bands_aggregate), the same on every
\* row of one tower; bands gives the band count of each tower.
AssocRows(bands) ==
    {[i \in 1..Len(q) |->
         [tower_id |-> q[i][1], provider_id |-> q[i][2],
          endc_available |-> q[i][3], band_count |-> bands[q[i][1]]]] :
       q \in SeqsUpTo((1..MaxTower) \X Providers \X BOOLEAN, MaxAssoc)}

\* {p["id"]: p["name"] for p in data.get("providers", [])}
providers == (7 :> "carrier7") @@ (8 :> "carrier8")

\* defaultdict(lambda: {...}) and defaultdict(set) before any row is read
NoStats ==
    [provider_stats |-> [p \in {} |-> 0],
     overall_band_counts |-> [bc \in {} |-> {}],
     all_towers |-> {},
     endc_enabled_towers |-> {},
     endc_disabled_towers |-> {}]

\* AddTo that assigns the set instead of adding to it
AddToOverwriting(d, key, x) ==
    [k \in DOMAIN d \cup {key} |-> IF k = key THEN {x} ELSE d[k]]

\* d[key].add(x) on a defaultdict(set)
AddTo(d, key, x) ==
    [k \in DOMAIN d \cup {key} |->
        IF k = key THEN (IF key \in DOMAIN d THEN d[key] ELSE {}) \cup {x}
        ELSE d[k]]

\* One pass of the loop over tower_providers.
AddRow(acc, tp) ==
    LET endc == tp.endc_available
        old  == IF tp.provider_id \in DOMAIN acc.provider_stats
                THEN acc.provider_stats[tp.provider_id]
                ELSE [band_counts |-> [bc \in {} |-> {}],
                      endc_towers |-> {}, non_endc_towers |-> {}]
        stats == [band_counts |-> AddTo(old.band_counts, tp.band_count, tp.tower_id),
                  endc_towers |-> IF endc THEN old.endc_towers \cup {tp.tower_id}
                                  ELSE old.endc_towers,
                  non_endc_towers |-> IF endc THEN old.non_endc_towers
                                      ELSE old.non_endc_towers \cup {tp.tower_id}]
    IN  [provider_stats |->
             [p \in DOMAIN acc.provider_stats \cup {tp.provider_id} |->
                 IF p = tp.provider_id THEN stats ELSE acc.provider_stats[p]],
         overall_band_counts |->
             AddTo(acc.overall_band_counts, tp.band_count, tp.tower_id),
         all_towers |-> acc.all_towers \cup {tp.tower_id},
         endc_enabled_towers |->
             IF endc THEN acc.endc_enabled_towers \cup {tp.tower_id}
             ELSE acc.endc_enabled_towers,
         endc_disabled_towers |->
             IF endc THEN acc.endc_disabled_towers
             ELSE acc.endc_disabled_towers \cup {tp.tower_id}]

RECURSIVE Accumulate(_, _)
Accumulate(rows, acc) ==
    IF rows = <<>> THEN acc
    ELSE Accumulate(Tail(rows), AddRow(acc, Head(rows)))

\* BandEntries listing the band counts from the highest down
BandEntriesDescending(band_counts) ==
    LET keys == DOMAIN band_counts
    IN  [i \in 1..Cardinality(keys) |->
            LET bc == CHOOSE k \in keys :
                          Cardinality({j \in keys : j > k}) = i - 1
            IN  [band_count |-> bc,
                 tower_count |-> Cardinality(band_counts[bc])]]

\* [BandDistributionEntry(band_count=bc, tower_count=len(towers)) ...]
BandEntries(band_counts) ==
    LET keys == sorted(DOMAIN band_counts)
    IN  [i \in 1..Len(keys) |->
            [band_count |-> keys[i],
             tower_count |-> Cardinality(band_counts[keys[i]])]]

BandDistribution(rows) ==
    LET acc == Accumulate(rows, NoStats)
        ids == sorted(DOMAIN acc.provider_stats)
    IN  [by_provider |->
             [i \in 1..Len(ids) |->
                 LET stats == acc.provider_stats[ids[i]]
                 IN  [provider_id |-> ids[i],
                      provider_name |-> IF ids[i] \in DOMAIN providers
                                        THEN Some(providers[ids[i]]) ELSE None,
                      distribution |-> BandEntries(stats.band_counts),
                      total_towers |->
                          Cardinality(UNION {stats.band_counts[bc] :
                                               bc \in DOMAIN stats.band_counts}),
                      endc_towers |-> Cardinality(stats.endc_towers),
                      non_endc_towers |-> Cardinality(stats.non_endc_towers)]],
         overall |-> BandEntries(acc.overall_band_counts),
         total_towers |-> Cardinality(acc.all_towers),
         endc_summary |->
             [endc_enabled |-> Cardinality(acc.endc_enabled_towers),
              endc_disabled |-> Cardinality(acc.endc_disabled_towers)]]

\* get_band_distribution()
GetBandDistribution ==
    /\ resp = None
    /\ resp' = Some([op |-> "band_distribution",
                     body |-> BandDistribution(tower_providers)])
    /\ UNCHANGED <<store, tableExists, clock, pc, csv, mv, rid, data, snap,
                   del, ins, idx, txid, outcome, undone, pre, overlapped,
                   lastImport, towers, tower_providers, source>>

BandInit ==
    /\ \E bands \in [1..MaxTower -> BandCounts] :
          tower_providers \in AssocRows(bands)
    /\ towers = NoTowers
    /\ source = [p \in Procs |-> "ok"]
    /\ store = {}
    /\ tableExists = FALSE
    /\ clock = 0
    /\ pc = [p \in Procs |-> "idle"]
    /\ csv = [p \in Procs |-> <<>>]
    /\ mv = [p \in Procs |-> "v1"]
    /\ rid = [p \in Procs |-> "r1"]
    /\ data = [p \in Procs |-> <<>>]
    /\ snap = [p \in Procs |-> {}]
    /\ del = [p \in Procs |-> {}]
    /\ ins = [p \in Procs |-> {}]
    /\ idx = [p \in Procs |-> 1]
    /\ txid = [p \in Procs |-> 0]
    /\ outcome = [p \in Procs |-> "none"]
    /\ undone = [p \in Procs |-> FALSE]
    /\ pre = [p \in Procs |-> {}]
    /\ overlapped = [p \in Procs |-> FALSE]
    /\ lastImport = None
    /\ resp = None

BandNext == GetBandDistribution

SpecBand == BandInit /\ [][BandNext]_vars

\* ------------------------------------------------------ model versions
\* The null of column run_id, of JSON and of Python's None for a run_id.
NullRunId == "null"

\* The order of the strings compared by ORDER BY; DESC puts the null first.
StringRank ==
    ("r1" :> 1) @@ ("r2" :> 2) @@ ("v1" :> 1) @@ ("v2" :> 2) @@ (NullRunId :> 3)

\* What the GraphQL engine makes of `_eq: null`: an error, or, with the
\* null-collapse setting, a condition that holds for every row.
NullEqModes == {"error", "collapse"}

\* The importers at rest, no reply yet and the other tables empty.
AtRest ==
    /\ tableExists = TRUE
    /\ towers = NoTowers
    /\ tower_providers = <<>>
    /\ source = [p \in Procs |-> "ok"]
    /\ pc = [p \in Procs |-> "idle"]
    /\ csv = [p \in Procs |-> <<>>]
    /\ mv = [p \in Procs |-> "v1"]
    /\ rid = [p \in Procs |-> "r1"]
    /\ data = [p \in Procs |-> <<>>]
    /\ snap = [p \in Procs |-> {}]
    /\ del = [p \in Procs |-> {}]
    /\ ins = [p \in Procs |-> {}]
    /\ idx = [p \in Procs |-> 1]
    /\ txid = [p \in Procs |-> 0]
    /\ outcome = [p \in Procs |-> "none"]
    /\ undone = [p \in Procs |-> FALSE]
    /\ pre = [p \in Procs |-> {}]
    /\ overlapped = [p \in Procs |-> FALSE]
    /\ lastImport = None
    /\ resp = None

\* distinct_on [model_version, run_id] under
\* order_by model_version desc, run_id desc, created_at desc: the newest row
\* of every pair, the pairs in descending order.
DistinctVersions(rows) ==
    LET pairs == {<<r.model_version, r.run_id>> : r \in rows}
        before(p, q) ==
            \/ StringRank[p[1]] > StringRank[q[1]]
            \/ p[1] = q[1] /\ StringRank[p[2]] > StringRank[q[2]]
        newest(p) ==
            CHOOSE r \in rows :
                /\ <<r.model_version, r.run_id>> = p
                /\ \A q \in rows :
                      <<q.model_version, q.run_id>> = p =>
                          q.created_at <= r.created_at
    IN  [k \in 1..Cardinality(pairs) |->
            LET p == CHOOSE q \in pairs :
                        Cardinality({o \in pairs : before(o, q)}) = k - 1
            IN  [model_version |-> p[1], run_id |-> p[2],
                 created_at |-> newest(p).created_at]]

\* where: {model_version: {_eq: $model_version}, run_id: {_eq: $run_id}};
\* a null $run_id leaves no condition on run_id.
VersionCount(rows, model_version, run_id) ==
    Cardinality({r \in rows :
        /\ r.model_version = model_version
        /\ run_id # NullRunId => r.run_id = run_id})

\* GET /anomalies/versions: one count query per row of the distinct query;
\* a query the engine refuses fails the request with status 400.
GetModelVersions(nullEq) ==
    /\ resp = None
    /\ LET versions_raw == DistinctVersions(store)
           refused == nullEq = "error" /\
                      \E k \in 1..Len(versions_raw) :
                          versions_raw[k].run_id = NullRunId
       IN  resp' = Some([op |-> "versions",
                         status |-> IF refused THEN 400 ELSE 200,
                         body |-> IF refused THEN <<>>
                                  ELSE [k \in 1..Len(versions_raw) |->
                                          [model_version |-> versions_raw[k].model_version,
                                           run_id |-> versions_raw[k].run_id,
                                           tower_count |->
                                               VersionCount(store,
                                                   versions_raw[k].model_version,
                                                   versions_raw[k].run_id),
                                           created_at |-> versions_raw[k].created_at]]])
    /\ UNCHANGED <<store, tableExists, clock, pc, csv, mv, rid, data, snap,
                   del, ins, idx, txid, outcome, undone, pre, overlapped,
                   lastImport, towers, tower_providers, source>>

\* The tables two imports leave: the second replaces the rows of its version,
\* or, having overlapped the first, only the rows of its own towers. A run_id
\* may be null.
VersionStores ==
    {{r \in ImportedRows(b1, "v1", r1, 1) :
         /\ v2 = "v1" => overlap
         /\ \A i \in 1..Len(b2) :
               ~(v2 = "v1" /\ b2[i].tower_id = r.tower_id)} \cup
     ImportedRows(b2, v2, r2, 2) :
        b1 \in ConcBatches("r1"), b2 \in ConcBatches("r2"), v2 \in Versions,
        r1 \in Runs \cup {NullRunId}, r2 \in Runs \cup {NullRunId},
        overlap \in BOOLEAN}

VersionsInit ==
    /\ store \in VersionStores
    /\ clock = 2
    /\ AtRest

VersionsNext == \E nullEq \in NullEqModes : GetModelVersions(nullEq)

SpecVersions == VersionsInit /\ [][VersionsNext]_vars

\* ---------------------------------------------------------- top anomalies
\* The thresholds asked for: min_percentile, 0 <= min_percentile <= 100.
MinPercentiles == {0, 50, 100}

\* Batches behind the ranked queries: tower i carries the i-th score.
TopBatches ==
    {[i \in 1..Len(ks) |-> CsvRow(i, ks[i])] :
        ks \in SeqsUpTo(0..MaxRankScore, MaxRankLen)}

\* The orders in which the database may produce rows of equal sort key: any
\* order of the towers.
TieOrders ==
    {f \in [1..MaxRankLen -> 1..MaxRankLen] :
        \A i, j \in 1..MaxRankLen : i # j => f[i] # f[j]}

\* where: {model_version: {_eq: ...}, percentile: {_gte: ...}}
TopWhere(rows, model_version, min_percentile) ==
    {r \in rows :
        /\ r.model_version = model_version
        /\ ~FracLess(r.percentile, <<min_percentile, 1>>)}

\* OrderLimit sorting by ascending score
OrderLimitAscending(rows, tie, limit) ==
    LET before(r, q) ==
            \/ r.anomaly_score < q.anomaly_score
            \/ r.anomaly_score = q.anomaly_score /\
               tie[r.tower_id] < tie[q.tower_id]
        n == IF limit < Cardinality(rows) THEN limit ELSE Cardinality(rows)
    IN  [k \in 1..n |->
            CHOOSE r \in rows :
                Cardinality({q \in rows : before(q, r)}) = k - 1]

\* order_by: {anomaly_score: desc}, limit: $limit; rows of equal score come
\* in the order tie.
OrderLimit(rows, tie, limit) ==
    LET before(r, q) ==
            \/ r.anomaly_score > q.anomaly_score
            \/ r.anomaly_score = q.anomaly_score /\
               tie[r.tower_id] < tie[q.tower_id]
        n == IF limit < Cardinality(rows) THEN limit ELSE Cardinality(rows)
    IN  [k \in 1..n |->
            CHOOSE r \in rows :
                Cardinality({q \in rows : before(q, r)}) = k - 1]

\* TowerWithAnomalyScore built from a row and its joined tower
WithTower(score) ==
    [tower_id |-> score.tower_id,
     latitude |-> towers[score.tower_id].latitude,
     longitude |-> towers[score.tower_id].longitude,
     anomaly_score |-> score.anomaly_score,
     percentile |-> score.percentile,
     link_pred_error |-> score.link_pred_error,
     neighbor_inconsistency |-> score.neighbor_inconsistency]

\* GET /anomalies/top
GetTopAnomalies(limit, min_percentile, model_version, tie) ==
    /\ resp = None
    /\ limit >= 1 /\ limit <= 1000
    /\ min_percentile >= 0 /\ min_percentile <= 100
    /\ LET rows == OrderLimit(TopWhere(store, model_version, min_percentile),
                              tie, limit)
       IN  resp' = Some([op |-> "top", model_version |-> model_version,
                         limit |-> limit, min_percentile |-> min_percentile,
                         body |-> [k \in 1..Len(rows) |-> WithTower(rows[k])]])
    /\ UNCHANGED <<store, tableExists, clock, pc, csv, mv, rid, data, snap,
                   del, ins, idx, txid, outcome, undone, pre, overlapped,
                   lastImport, towers, tower_providers, source>>

\* Table towers: a row for every tower that is scored.
TowerRows(n) == [t \in 1..n |-> [latitude |-> t % 3, longitude |-> (t \div 2) % 3]]

TopInit ==
    /\ \E b1 \in TopBatches :
          store = ImportedRows(b1, "v1", "r1", 1) \cup
                  ImportedRows(<<CsvRow(1, MaxRankScore)>>, "v2", "r1", 2)
    /\ clock = 2
    /\ tableExists = TRUE
    /\ towers = TowerRows(MaxRankLen)
    /\ tower_providers = <<>>
    /\ source = [p \in Procs |-> "ok"]
    /\ pc = [p \in Procs |-> "idle"]
    /\ csv = [p \in Procs |-> <<>>]
    /\ mv = [p \in Procs |-> "v1"]
    /\ rid = [p \in Procs |-> "r1"]
    /\ data = [p \in Procs |-> <<>>]
    /\ snap = [p \in Procs |-> {}]
    /\ del = [p \in Procs |-> {}]
    /\ ins = [p \in Procs |-> {}]
    /\ idx = [p \in Procs |-> 1]
    /\ txid = [p \in Procs |-> 0]
    /\ outcome = [p \in Procs |-> "none"]
    /\ undone = [p \in Procs |-> FALSE]
    /\ pre = [p \in Procs |-> {}]
    /\ overlapped = [p \in Procs |-> FALSE]
    /\ lastImport = None
    /\ resp = None

TopNext ==
    \E limit \in 1..MaxRankLen, min_percentile \in MinPercentiles,
       v \in Versions, tie \in TieOrders :
        GetTopAnomalies(limit, min_percentile, v, tie)

SpecTop == TopInit /\ [][TopNext]_vars

\* GET /anomalies/top sent once more with the arguments of the reply at hand;
\* the reply keeps the first answer beside the second.
RepeatTopAnomalies(tie) ==
    /\ resp # None
    /\ resp[1].op = "top"
    /\ LET rows == OrderLimit(TopWhere(store, resp[1].model_version,
                                       resp[1].min_percentile),
                              tie, resp[1].limit)
       IN  resp' = Some([op |-> "top_twice",
                         model_version |-> resp[1].model_version,
                         limit |-> resp[1].limit,
                         min_percentile |-> resp[1].min_percentile,
                         first |-> resp[1].body,
                         body |-> [k \in 1..Len(rows) |-> WithTower(rows[k])]])
    /\ UNCHANGED <<store, tableExists, clock, pc, csv, mv, rid, data, snap,
                   del, ins, idx, txid, outcome, undone, pre, overlapped,
                   lastImport, towers, tower_providers, source>>

TopTwiceNext ==
    \/ TopNext
    \/ \E tie \in TieOrders : RepeatTopAnomalies(tie)

SpecTopTwice == TopInit /\ [][TopTwiceNext]_vars

\* ------------------------------------------------------ anomalies in bounds
\* The latitudes and longitudes asked for; 91 is no latitude.
Latitudes == {0, 1, 2, 91}
Longitudes == {0, 1}

\* Query(..., ge=-90, le=90) and Query(..., ge=-180, le=180)
ValidBox(min_lat, max_lat, min_lng, max_lng) ==
    /\ min_lat >= 0 - 90 /\ min_lat <= 90
    /\ max_lat >= 0 - 90 /\ max_lat <= 90
    /\ min_lng >= 0 - 180 /\ min_lng <= 180
    /\ max_lng >= 0 - 180 /\ max_lng <= 180

\* BoundsWhere leaving out the towers on the edges
BoundsWhereOpen(rows, model_version, min_percentile, box) ==
    {r \in TopWhere(rows, model_version, min_percentile) :
        /\ towers[r.tower_id].latitude > box.min_lat
        /\ towers[r.tower_id].latitude < box.max_lat
        /\ towers[r.tower_id].longitude > box.min_lng
        /\ towers[r.tower_id].longitude < box.max_lng}

\* where: {model_version, percentile, tower: {latitude: {_gte, _lte},
\* longitude: {_gte, _lte}}}
BoundsWhere(rows, model_version, min_percentile, box) ==
    {r \in TopWhere(rows, model_version, min_percentile) :
        /\ towers[r.tower_id].latitude >= box.min_lat
        /\ towers[r.tower_id].latitude <= box.max_lat
        /\ towers[r.tower_id].longitude >= box.min_lng
        /\ towers[r.tower_id].longitude <= box.max_lng}

\* GET /anomalies/in-bounds: a parameter out of its range is refused with
\* status 422 before the handler runs; otherwise the query is sent.
GetAnomaliesInBounds(box, min_percentile, limit, model_version, tie) ==
    /\ resp = None
    /\ LET valid == /\ ValidBox(box.min_lat, box.max_lat,
                                 box.min_lng, box.max_lng)
                    /\ min_percentile >= 0 /\ min_percentile <= 100
                    /\ limit >= 1 /\ limit <= 5000
           rows == OrderLimit(BoundsWhere(store, model_version, min_percentile,
                                          box),
                              tie, limit)
       IN  resp' = Some([op |-> "in_bounds", model_version |-> model_version,
                         limit |-> limit, min_percentile |-> min_percentile,
                         min_lat |-> box.min_lat, max_lat |-> box.max_lat,
                         min_lng |-> box.min_lng, max_lng |-> box.max_lng,
                         status |-> IF valid THEN 200 ELSE 422,
                         queried |-> valid,
                         body |-> IF valid
                                  THEN [k \in 1..Len(rows) |-> WithTower(rows[k])]
                                  ELSE <<>>])
    /\ UNCHANGED <<store, tableExists, clock, pc, csv, mv, rid, data, snap,
                   del, ins, idx, txid, outcome, undone, pre, overlapped,
                   lastImport, towers, tower_providers, source>>

\* Two of the orders of equal rows: by tower_id, upwards and downwards.
BoundsTies ==
    {[t \in 1..MaxRankLen |-> t], [t \in 1..MaxRankLen |-> MaxRankLen + 1 - t]}

BoundsNext ==
    \E min_lat \in Latitudes, max_lat \in Latitudes,
       min_lng \in Longitudes, max_lng \in Longitudes,
       min_percentile \in {0, 50}, limit \in {1, MaxRankLen},
       v \in Versions, tie \in BoundsTies :
        GetAnomaliesInBounds([min_lat |-> min_lat, max_lat |-> max_lat,
                              min_lng |-> min_lng, max_lng |-> max_lng],
                             min_percentile, limit, v, tie)

SpecBounds == TopInit /\ [][BoundsNext]_vars

\* ---------------------------------------------------------------- metrics
\* GET /anomalies/metrics runs three handlers one after the other, each
\* sending its own query; resp holds the parts gathered so far.
MetricsStats(v, top_n) ==
    /\ resp = None
    /\ top_n >= 1 /\ top_n <= 100
    /\ LET rows == OfVersion(store, v)
       IN  \E first \in {Some(r.run_id) : r \in rows} \cup
                         (IF rows = {} THEN {None} ELSE {}) :
               resp' = Some([op |-> "metrics", stage |-> "stats",
                             model_version |-> v, top_n |-> top_n,
                             stats |-> AnomalyStats(rows, v, first)])
    /\ UNCHANGED <<store, tableExists, clock, pc, csv, mv, rid, data, snap,
                   del, ins, idx, txid, outcome, undone, pre, overlapped,
                   lastImport, towers, tower_providers, source>>

\* get_anomaly_distribution(buckets=20, ...)
MetricsDistribution ==
    /\ resp # None
    /\ resp[1].op = "metrics" /\ resp[1].stage = "stats"
    /\ resp' = Some([op |-> "metrics", stage |-> "distribution",
                     model_version |-> resp[1].model_version,
                     top_n |-> resp[1].top_n,
                     stats |-> resp[1].stats,
                     distribution |->
                         Distribution(OfVersion(store, resp[1].model_version),
                                      20)])
    /\ UNCHANGED <<store, tableExists, clock, pc, csv, mv, rid, data, snap,
                   del, ins, idx, txid, outcome, undone, pre, overlapped,
                   lastImport, towers, tower_providers, source>>

\* get_top_anomalies(limit=top_n, min_percentile=95.0, ...) and the reply
MetricsTop(tie) ==
    /\ resp # None
    /\ resp[1].op = "metrics" /\ resp[1].stage = "distribution"
    /\ LET rows == OrderLimit(TopWhere(store, resp[1].model_version, 95),
                              tie, resp[1].top_n)
       IN  resp' = Some([op |-> "metrics", stage |-> "done",
                         model_version |-> resp[1].model_version,
                         top_n |-> resp[1].top_n,
                         stats |-> resp[1].stats,
                         distribution |-> resp[1].distribution,
                         top_anomalies |->
                             [k \in 1..Len(rows) |-> WithTower(rows[k])]])
    /\ UNCHANGED <<store, tableExists, clock, pc, csv, mv, rid, data, snap,
                   del, ins, idx, txid, outcome, undone, pre, overlapped,
                   lastImport, towers, tower_providers, source>>

\* A table that is empty or holds one earlier import of version "v1".
MetricsInit ==
    /\ \E b \in {<<>>, <<CsvRow(1, ScoreOf(1, "r1"))>>} :
          store = ImportedRows(b, "v1", "r1", 0)
    /\ tableExists = TRUE
    /\ clock = 0
    /\ towers = TowerRows(MaxTower)
    /\ tower_providers = <<>>
    /\ source = [p \in Procs |-> "ok"]
    /\ pc = [p \in Procs |-> "idle"]
    /\ csv = [p \in Procs |-> <<>>]
    /\ mv = [p \in Procs |-> "v1"]
    /\ rid = [p \in Procs |-> "r1"]
    /\ data = [p \in Procs |-> <<>>]
    /\ snap = [p \in Procs |-> {}]
    /\ del = [p \in Procs |-> {}]
    /\ ins = [p \in Procs |-> {}]
    /\ idx = [p \in Procs |-> 1]
    /\ txid = [p \in Procs |-> 0]
    /\ outcome = [p \in Procs |-> "none"]
    /\ undone = [p \in Procs |-> FALSE]
    /\ pre = [p \in Procs |-> {}]
    /\ overlapped = [p \in Procs |-> FALSE]
    /\ lastImport = None
    /\ resp = None

\* One importer runs while one metrics request is served.
MetricsNext ==
    \/ StartImport("a")
    \/ ReadCsv("a")
    \/ DeleteStart("a")
    \/ DeleteFinish("a")
    \/ InsertRow("a")
    \/ Commit("a")
    \/ \E v \in Versions, top_n \in 1..MaxTower : MetricsStats(v, top_n)
    \/ MetricsDistribution
    \/ \E tie \in BoundsTies : MetricsTop(tie)

SpecMetrics == MetricsInit /\ [][MetricsNext]_vars

\* ------------------------------------------------------------ list towers
\* The values a client may give each optional filter; None is "not supplied".
TowerTypes == {None, Some(""), Some("macro")}
Flags == {None, Some(TRUE), Some(FALSE)}
ProviderIds == {None, Some(0), Some(7)}
Rats == {None, Some(""), Some("LTE")}

\* `if x:` on an Optional[str] and on an Optional[int]
TruthyStr(x) == x # None /\ x[1] # ""
TruthyInt(x) == x # None /\ x[1] # 0

\* seq with x appended when cond holds
AppendIf(seq, cond, x) == IF cond THEN Append(seq, x) ELSE seq

\* where_clauses: each clause with the key it sets in the where object and
\* the variables it refers to
WhereClauses(tower_type, visible, multi_provider, provider_id, rat) ==
    AppendIf(
    AppendIf(
    AppendIf(
    AppendIf(
    AppendIf(
    AppendIf(<<>>,
        TruthyStr(tower_type),
        [text |-> "tower_type: {_eq: $tower_type}", key |-> "tower_type",
         refs |-> {"tower_type"}]),
        visible # None,
        [text |-> "visible: {_eq: $visible}", key |-> "visible",
         refs |-> {"visible"}]),
        multi_provider = Some(TRUE),
        [text |-> "provider_count: {_gt: 1}", key |-> "provider_count",
         refs |-> {}]),
        multi_provider = Some(FALSE),
        [text |-> "provider_count: {_eq: 1}", key |-> "provider_count",
         refs |-> {}]),
        TruthyInt(provider_id),
        [text |-> "tower_providers: {provider_id: {_eq: $provider_id}}",
         key |-> "tower_providers", refs |-> {"provider_id"}]),
        TruthyStr(rat),
        [text |-> "tower_providers: {rat: {_eq: $rat}}",
         key |-> "tower_providers", refs |-> {"rat"}])

\* var_defs: the variables declared in the query header
VarDefs(tower_type, visible, provider_id, rat) ==
    AppendIf(
    AppendIf(
    AppendIf(
    AppendIf(<<[name |-> "limit", type |-> "Int!"],
               [name |-> "offset", type |-> "Int!"]>>,
        TruthyStr(tower_type), [name |-> "tower_type", type |-> "String!"]),
        visible # None, [name |-> "visible", type |-> "Boolean!"]),
        TruthyInt(provider_id), [name |-> "provider_id", type |-> "Int!"]),
        TruthyStr(rat), [name |-> "rat", type |-> "String!"])

\* the dictionary `variables`
Variables(tower_type, visible, provider_id, rat) ==
    [n \in {"limit", "offset"} \cup
           (IF TruthyStr(tower_type) THEN {"tower_type"} ELSE {}) \cup
           (IF visible # None THEN {"visible"} ELSE {}) \cup
           (IF TruthyInt(provider_id) THEN {"provider_id"} ELSE {}) \cup
           (IF TruthyStr(rat) THEN {"rat"} ELSE {}) |->
        IF n = "limit" THEN Some(100)
        ELSE IF n = "offset" THEN Some(0)
        ELSE IF n = "tower_type" THEN tower_type
        ELSE IF n = "visible" THEN visible
        ELSE IF n = "provider_id" THEN provider_id
        ELSE rat]

\* GET /towers: the query and the variables handed to hasura.execute
ListTowers(tower_type, visible, multi_provider, provider_id, rat) ==
    /\ resp = None
    /\ resp' = Some([op |-> "list_towers",
                     tower_type |-> tower_type, visible |-> visible,
                     multi_provider |-> multi_provider,
                     provider_id |-> provider_id, rat |-> rat,
                     where_clauses |->
                         WhereClauses(tower_type, visible, multi_provider,
                                      provider_id, rat),
                     var_defs |-> VarDefs(tower_type, visible, provider_id, rat),
                     variables |->
                         Variables(tower_type, visible, provider_id, rat)])
    /\ UNCHANGED <<store, tableExists, clock, pc, csv, mv, rid, data, snap,
                   del, ins, idx, txid, outcome, undone, pre, overlapped,
                   lastImport, towers, tower_providers, source>>

TowersInit ==
    /\ store = {}
    /\ clock = 0
    /\ AtRest

TowersNext ==
    \E tower_type \in TowerTypes, visible \in Flags, multi_provider \in Flags,
       provider_id \in ProviderIds, rat \in Rats :
        ListTowers(tower_type, visible, multi_provider, provider_id, rat)

SpecTowers == TowersInit /\ [][TowersNext]_vars

\* ------------------------------------------------------------------ claims
DistinctTowers(rows) ==
    \A i, j \in 1..Len(rows) : i # j => rows[i].tower_id # rows[j].tower_id

Finished(p) == pc[p] = "idle" /\ outcome[p] \in {"ok", "crash", "error"}

Committed(p) == pc[p] = "idle" /\ outcome[p] = "ok"

\* no importer has started since p did
Latest(p) == txid[p] = clock

\* row r of the table is row c of the CSV, imported as version v, run r
IsRowOf(r, c, v, run) ==
    /\ r.tower_id = c.tower_id
    /\ r.model_version = v
    /\ r.run_id = run
    /\ r.anomaly_score = c.anomaly_score
    /\ r.link_pred_error = c.link_pred_error
    /\ r.neighbor_inconsistency = c.neighbor_inconsistency

\* C1: once an import of version v, run r and a batch of distinct tower_ids
\* has committed (and until the next importer starts), the rows stored for v
\* are exactly the rows of the batch, one per tower_id, all with run r and all
\* written by this import.
C1_ImportReplaces ==
    \A p \in Procs :
        (Committed(p) /\ Latest(p) /\ DistinctTowers(csv[p])) =>
            LET S == OfVersion(store, mv[p])
            IN  /\ Cardinality(S) = Len(csv[p])
                /\ \A r \in S :
                      /\ r.created_at = txid[p]
                      /\ \E i \in 1..Len(csv[p]) :
                            IsRowOf(r, csv[p][i], mv[p], rid[p])
                /\ \A i \in 1..Len(csv[p]) :
                      \E r \in S : IsRowOf(r, csv[p][i], mv[p], rid[p])

\* an import over rows of the same version that had another run_id and a
\* tower_id the new batch does not have
C1_Witness ==
    \E p \in Procs :
        /\ Committed(p)
        /\ Latest(p)
        /\ DistinctTowers(csv[p])
        /\ Len(csv[p]) >= 1
        /\ \E r \in OfVersion(pre[p], mv[p]) :
              /\ r.run_id # rid[p]
              /\ \A i \in 1..Len(csv[p]) : csv[p][i].tower_id # r.tower_id

\* C2: an import that crashed or failed inside its transaction leaves, for
\* its version, exactly the rows that were stored when it started.
C2_FailedImportKeepsOld ==
    \A p \in Procs :
        (pc[p] = "idle" /\ outcome[p] \in {"crash", "error"} /\ Latest(p)) =>
            OfVersion(store, mv[p]) = OfVersion(pre[p], mv[p])

\* a crash of an import of a non-empty batch over stored rows of its version,
\* after the transaction had changed rows
C2_Witness ==
    \E p \in Procs :
        /\ pc[p] = "idle"
        /\ outcome[p] = "crash"
        /\ Latest(p)
        /\ undone[p]
        /\ Len(data[p]) >= 1
        /\ OfVersion(pre[p], mv[p]) # {}

\* C3: of two overlapping imports of one version, each of a non-empty batch,
\* that both ran to their end, one failed with an error and the version holds
\* exactly one of the two batches.
C3_ConcurrentImportConflict ==
    \A p, q \in Procs :
        (/\ p # q
         /\ Finished(p) /\ Finished(q)
         /\ overlapped[p] /\ overlapped[q]
         /\ mv[p] = mv[q]
         /\ csv[p] # <<>> /\ csv[q] # <<>>
         /\ outcome[p] # "crash" /\ outcome[q] # "crash") =>
            /\ "error" \in {outcome[p], outcome[q]}
            /\ \E w \in {p, q} :
                  Contents(OfVersion(store, mv[p])) =
                      {data[w][i] : i \in 1..Len(data[w])}

\* C4: an import of an empty batch fails before it changes anything.
C4_EmptyBatchRejected ==
    \A p \in Procs :
        (outcome[p] # "none" /\ Latest(p) /\ csv[p] = <<>>) =>
            /\ ~InTx(p)
            /\ outcome[p] # "ok"
            /\ OfVersion(store, mv[p]) = OfVersion(pre[p], mv[p])

\* C5: the committed table has at most one row per (tower_id, model_version).
C5_UniqueKey ==
    \A r1, r2 \in store :
        (r1.tower_id = r2.tower_id /\ r1.model_version = r2.model_version)
            => r1 = r2

\* a committed row that one import inserted and an overlapping import then
\* rewrote through ON CONFLICT DO UPDATE
C5_Witness ==
    \E r \in store : r.id[1] # r.created_at

\* C6: when the import that just committed had the arguments of the
\* committed import before it, the table holds the same records as before it,
\* created_at (and the surrogate id) aside.
C6_ReimportIdempotent ==
    \A p \in Procs :
        (/\ Committed(p)
         /\ lastImport # None
         /\ lastImport[1].repeat
         /\ lastImport[1].csv = csv[p]
         /\ lastImport[1].mv = mv[p]
         /\ lastImport[1].rid = rid[p]
         /\ Latest(p)) =>
            /\ Contents(store) = Contents(pre[p])
            /\ Cardinality(store) = Cardinality(pre[p])

\* the same non-empty batch committed twice; the rows were rewritten
C6_Witness ==
    \E p \in Procs :
        /\ Committed(p)
        /\ lastImport # None
        /\ lastImport[1].repeat
        /\ Latest(p)
        /\ Len(csv[p]) = MaxBatch
        /\ store # pre[p]

\* the average rank of the i-th score among all, ties sharing the mean of
\* the positions they occupy, over N, times 100
AvgRankPercentile(rows, i) ==
    LET n    == Len(rows)
        less == Cardinality({j \in 1..n :
                    rows[j].anomaly_score < rows[i].anomaly_score})
        eq   == Cardinality({j \in 1..n :
                    rows[j].anomaly_score = rows[i].anomaly_score})
    IN  Frac((2 * less + eq + 1) * 100, 2 * n)

Ranked(p) == pc[p] # "created" /\ outcome[p] # "none"

\* C7: the percentile given to each record of a batch is its average rank
\* over N times 100; a batch of one record gets 100.
C7_AverageRankPercentile ==
    \A p \in Procs :
        Ranked(p) =>
            /\ Len(data[p]) = Len(csv[p])
            /\ \A i \in 1..Len(data[p]) :
                  data[p][i].percentile = AvgRankPercentile(csv[p], i)
            /\ Len(data[p]) = 1 => data[p][1].percentile = <<100, 1>>

\* a ranked batch with a tie and a third, different score
C7_Witness ==
    \E p \in Procs :
        /\ Ranked(p)
        /\ \E i, j, k \in 1..Len(data[p]) :
              /\ i # j
              /\ data[p][i].anomaly_score = data[p][j].anomaly_score
              /\ data[p][k].anomaly_score < data[p][i].anomaly_score

\* C8: within a batch a lower score has a lower percentile and equal scores
\* have equal percentiles.
C8_PercentileOrder ==
    \A p \in Procs :
        Ranked(p) =>
            \A i, j \in 1..Len(data[p]) :
                /\ data[p][i].anomaly_score < data[p][j].anomaly_score
                     => FracLess(data[p][i].percentile, data[p][j].percentile)
                /\ data[p][i].anomaly_score = data[p][j].anomaly_score
                     => data[p][i].percentile = data[p][j].percentile

\* a ranked batch with a tie placed above a lower score
C8_Witness ==
    \E p \in Procs :
        /\ Ranked(p)
        /\ Len(data[p]) = MaxRankLen
        /\ \E i, j, k \in 1..Len(data[p]) :
              /\ i < j
              /\ data[p][i].anomaly_score = data[p][j].anomaly_score
              /\ data[p][i].anomaly_score < data[p][k].anomaly_score

Reorderings(n) ==
    {f \in [1..n -> 1..n] : \A i, j \in 1..n : i # j => f[i] # f[j]}

\* C9: after the import of a batch of distinct tower_ids, the percentile
\* stored for each tower is the one the import of any reordering of the batch
\* gives that tower.
C9_OrderIndependent ==
    \A p \in Procs :
        (Committed(p) /\ DistinctTowers(csv[p])) =>
            \A f \in Reorderings(Len(csv[p])) :
                LET d2 == PrepareData([i \in 1..Len(csv[p]) |-> csv[p][f[i]]],
                                      mv[p], rid[p])
                IN  \A i \in 1..Len(d2) :
                        \E r \in OfVersion(store, mv[p]) :
                            /\ r.tower_id = d2[i].tower_id
                            /\ r.percentile = d2[i].percentile

\* a committed batch of distinct towers, not in score order, with a tie
C9_Witness ==
    \E p \in Procs :
        /\ Committed(p)
        /\ DistinctTowers(csv[p])
        /\ Len(csv[p]) = MaxRankLen
        /\ \E i, j, k \in 1..Len(csv[p]) :
              /\ i < j /\ j < k
              /\ csv[p][i].anomaly_score > csv[p][j].anomaly_score
              /\ csv[p][j].anomaly_score = csv[p][k].anomaly_score
        /\ Cardinality(OfVersion(store, mv[p])) = MaxRankLen

\* C10: the bucket counts of a distribution response add up to the number of
\* rows stored for its version.
C10_BucketCountsSum ==
    (resp # None /\ resp[1].op = "distribution") =>
        SumCounts(resp[1].body) =
            Cardinality(OfVersion(store, resp[1].model_version))

\* C11: a non-empty distribution has exactly `buckets` buckets that tile
\* [0, 1] (the first starts at 0, each starts where the one before ends, the
\* last ends at 1), and bucket i counts exactly the scores v with
\* i / buckets <= v < (i + 1) / buckets, the last bucket also those equal to 1.
C11_BucketsPartition ==
    (resp # None /\ resp[1].op = "distribution" /\ resp[1].body # <<>>) =>
        LET n    == resp[1].buckets
            body == resp[1].body
            rows == OfVersion(store, resp[1].model_version)
        IN  /\ Len(body) = n
            /\ body[1].bucket_start = 0
            /\ body[n].bucket_end = 10000
            /\ \A b \in 2..n : body[b].bucket_start = body[b - 1].bucket_end
            /\ \A b \in 1..n :
                  body[b].count =
                      Cardinality({r \in rows :
                          \/ /\ (b - 1) * ScoreDen <= r.anomaly_score * n
                             /\ r.anomaly_score * n < b * ScoreDen
                          \/ b = n /\ r.anomaly_score = ScoreDen})

SumTowerCounts(distribution) ==
    SumCounts([i \in 1..Len(distribution) |->
                  [count |-> distribution[i].tower_count]])

\* the distinct towers that have an association row with provider p
TowersOf(p) ==
    {tower_providers[i].tower_id :
        i \in {j \in 1..Len(tower_providers) :
                  tower_providers[j].provider_id = p}}

BandReplied == resp # None /\ resp[1].op = "band_distribution"

\* C12: for every provider entry of a band distribution, the tower counts of
\* its distribution add up to its total_towers, which is the number of
\* distinct towers having a row with that provider.
C12_BandCountsSum ==
    BandReplied =>
        \A i \in 1..Len(resp[1].body.by_provider) :
            LET e == resp[1].body.by_provider[i]
            IN  /\ SumTowerCounts(e.distribution) = e.total_towers
                /\ e.total_towers = Cardinality(TowersOf(e.provider_id))

\* a provider with two rows for one tower and a row for another tower
C12_Witness ==
    /\ BandReplied
    /\ Len(tower_providers) >= 3
    /\ \A k \in 1..Len(tower_providers) :
          tower_providers[k].provider_id = tower_providers[1].provider_id
    /\ \E i, j \in 1..Len(tower_providers) :
          i < j /\ tower_providers[i].tower_id = tower_providers[j].tower_id
    /\ \E n \in 1..Len(resp[1].body.by_provider) :
          resp[1].body.by_provider[n].total_towers = 2

\* C13: for every provider entry, endc_towers + non_endc_towers =
\* total_towers.
C13_EndcSplit ==
    BandReplied =>
        \A i \in 1..Len(resp[1].body.by_provider) :
            LET e == resp[1].body.by_provider[i]
            IN  e.endc_towers + e.non_endc_towers = e.total_towers

\* C14: a tower with a row reporting EN-DC for provider p counts for p as
\* EN-DC-enabled and not as disabled: p's endc_towers is the number of such
\* towers and its non_endc_towers the number of p's other towers.
C14_EndcAccumulates ==
    BandReplied =>
        \A i \in 1..Len(resp[1].body.by_provider) :
            LET e == resp[1].body.by_provider[i]
                enabled ==
                    {tower_providers[j].tower_id :
                        j \in {k \in 1..Len(tower_providers) :
                                  /\ tower_providers[k].provider_id = e.provider_id
                                  /\ tower_providers[k].endc_available}}
            IN  /\ e.endc_towers = Cardinality(enabled)
                /\ e.non_endc_towers =
                       Cardinality(TowersOf(e.provider_id) \ enabled)

StatsReplied == resp # None /\ resp[1].op = "stats"

\* C15: the statistics of a version with no stored record are total_scored 0,
\* mean 0, std 0, min 0, max 1 and both percentile counts 0, none of them
\* null.
C15_EmptyStats ==
    (StatsReplied /\ OfVersion(store, resp[1].model_version) = {}) =>
        LET b == resp[1].body
        IN  /\ b.total_scored = 0
            /\ b.mean_score = <<0, 1>>
            /\ b.std_score = [sqrt |-> <<0, 1>>]
            /\ b.min_score = <<0, 1>>
            /\ b.max_score = <<1, 1>>
            /\ b.above_95th_percentile = 0
            /\ b.above_99th_percentile = 0

\* statistics asked of a version without records while another has some
C15_Witness ==
    /\ StatsReplied
    /\ OfVersion(store, resp[1].model_version) = {}
    /\ store # {}

\* C16: the two counts of a statistics reply are the numbers of records of
\* the version with a percentile strictly above 95 and strictly above 99, and
\* above_99th_percentile <= above_95th_percentile <= total_scored.
C16_StrictThresholds ==
    StatsReplied =>
        LET b    == resp[1].body
            rows == OfVersion(store, resp[1].model_version)
        IN  /\ b.above_95th_percentile =
                   Cardinality({r \in rows :
                       r.percentile[1] > 95 * r.percentile[2]})
            /\ b.above_99th_percentile =
                   Cardinality({r \in rows :
                       r.percentile[1] > 99 * r.percentile[2]})
            /\ b.above_99th_percentile <= b.above_95th_percentile
            /\ b.above_95th_percentile <= b.total_scored

\* statistics over records at exactly 95, at exactly 99 and above 95
C16_Witness ==
    /\ StatsReplied
    /\ \E r, q \in OfVersion(store, resp[1].model_version) :
          r.percentile = <<95, 1>> /\ q.percentile = <<99, 1>>
    /\ resp[1].body.above_95th_percentile > 0

VersionsReplied == resp # None /\ resp[1].op = "versions"

\* C17: a reply of get_model_versions has exactly one descriptor for every
\* (model_version, run_id) pair of the store, and its tower_count is the
\* number of stored records with that model_version and that run_id, a null
\* run_id counting only the records whose run_id is null.
C17_VersionCounts ==
    VersionsReplied =>
        \A v \in Versions, r \in Runs \cup {NullRunId} :
            LET recs == {x \in store : x.model_version = v /\ x.run_id = r}
                ds   == {k \in 1..Len(resp[1].body) :
                            /\ resp[1].body[k].model_version = v
                            /\ resp[1].body[k].run_id = r}
            IN  /\ Cardinality(ds) = (IF recs = {} THEN 0 ELSE 1)
                /\ \A k \in ds :
                      resp[1].body[k].tower_count = Cardinality(recs)

TopReplied == resp # None /\ resp[1].op = "top"

\* The stored records a top query is to choose from
TopMatches ==
    {r \in store :
        /\ r.model_version = resp[1].model_version
        /\ r.percentile[1] >= resp[1].min_percentile * r.percentile[2]}

\* C18: a reply of get_top_anomalies has min(limit, |M|) records, each a
\* different record of M (the records of the version at or above
\* min_percentile), in non-increasing order of anomaly_score, and no record of
\* M left out scores strictly higher than a returned one.
C18_TopAnomalies ==
    TopReplied =>
        LET b == resp[1].body
            returned == {b[k].tower_id : k \in 1..Len(b)}
        IN  /\ Len(b) = (IF resp[1].limit < Cardinality(TopMatches)
                         THEN resp[1].limit ELSE Cardinality(TopMatches))
            /\ Cardinality(returned) = Len(b)
            /\ \A k \in 1..Len(b) :
                  \E r \in TopMatches :
                      /\ r.tower_id = b[k].tower_id
                      /\ r.anomaly_score = b[k].anomaly_score
                      /\ r.percentile = b[k].percentile
            /\ \A k \in 1..(Len(b) - 1) :
                  b[k].anomaly_score >= b[k + 1].anomaly_score
            /\ \A r \in TopMatches :
                  r.tower_id \notin returned =>
                      \A k \in 1..Len(b) : r.anomaly_score <= b[k].anomaly_score

\* a reply cut by the limit, leaving out a matching record of lower score,
\* while another record of the version is below min_percentile
C18_Witness ==
    /\ TopReplied
    /\ Len(resp[1].body) = resp[1].limit
    /\ resp[1].limit < Cardinality(TopMatches)
    /\ TopMatches # OfVersion(store, resp[1].model_version)
    /\ \E r \in TopMatches :
          /\ \A k \in 1..Len(resp[1].body) :
                r.tower_id # resp[1].body[k].tower_id
          /\ r.anomaly_score < resp[1].body[1].anomaly_score

BoundsReplied == resp # None /\ resp[1].op = "in_bounds"

\* The stored records inside the closed rectangle of an in-bounds request
BoundsMatches ==
    {r \in store :
        /\ r.model_version = resp[1].model_version
        /\ r.percentile[1] >= resp[1].min_percentile * r.percentile[2]
        /\ resp[1].min_lat <= towers[r.tower_id].latitude
        /\ towers[r.tower_id].latitude <= resp[1].max_lat
        /\ resp[1].min_lng <= towers[r.tower_id].longitude
        /\ towers[r.tower_id].longitude <= resp[1].max_lng}

\* C19: an answered in-bounds request returns the min(limit, |M|) highest
\* scoring records of M, the records of the version at or above
\* min_percentile whose tower lies in the closed rectangle, edges and corners
\* included, in non-increasing order of anomaly_score.
C19_InBounds ==
    (BoundsReplied /\ resp[1].status = 200) =>
        LET b == resp[1].body
            returned == {b[k].tower_id : k \in 1..Len(b)}
        IN  /\ Len(b) = (IF resp[1].limit < Cardinality(BoundsMatches)
                         THEN resp[1].limit ELSE Cardinality(BoundsMatches))
            /\ Cardinality(returned) = Len(b)
            /\ \A k \in 1..Len(b) :
                  \E r \in BoundsMatches :
                      /\ r.tower_id = b[k].tower_id
                      /\ r.anomaly_score = b[k].anomaly_score
                      /\ b[k].latitude = towers[r.tower_id].latitude
                      /\ b[k].longitude = towers[r.tower_id].longitude
            /\ \A k \in 1..(Len(b) - 1) :
                  b[k].anomaly_score >= b[k + 1].anomaly_score
            /\ \A r \in BoundsMatches :
                  r.tower_id \notin returned =>
                      \A k \in 1..Len(b) : r.anomaly_score <= b[k].anomaly_score

\* a reply with a tower on a corner of the rectangle and another tower,
\* while a record of the version lies outside the rectangle
C19_Witness ==
    /\ BoundsReplied /\ resp[1].status = 200
    /\ Len(resp[1].body) >= 2
    /\ \E k \in 1..Len(resp[1].body) :
          /\ resp[1].body[k].latitude = resp[1].max_lat
          /\ resp[1].body[k].longitude = resp[1].min_lng
    /\ \E r \in OfVersion(store, resp[1].model_version) :
          towers[r.tower_id].latitude > resp[1].max_lat

\* C20: an in-bounds request with min_lat > max_lat or min_lng > max_lng is
\* refused with a validation error and no query is sent.
C20_InvertedBoxRejected ==
    (BoundsReplied /\ (resp[1].min_lat > resp[1].max_lat \/
                       resp[1].min_lng > resp[1].max_lng)) =>
        resp[1].status = 422 /\ ~resp[1].queried

\* C21: a run whose source cannot be opened or holds a non-numeric score
\* fails and none of its steps changes the database: the table is not
\* created and the stored records stay as they were.
C21_BadSourceNoMutation ==
    [][\A p \in Procs :
          (source'[p] # "ok" /\ (pc'[p] # pc[p] \/ outcome'[p] # outcome[p])) =>
              /\ store' = store
              /\ tableExists' = tableExists
              /\ pc'[p] = "idle" => outcome'[p] = "error"]_vars

\* C22: an import of a batch that names a tower_id in several rows succeeds
\* and leaves, for each tower_id of the batch, exactly one record, with the
\* score, the auxiliary fields and the percentile of the last row of that
\* tower_id.
C22_DuplicateLastWins ==
    \A p \in Procs :
        (/\ Finished(p) /\ outcome[p] # "crash"
         /\ Latest(p)
         /\ source[p] = "ok"
         /\ ~DistinctTowers(csv[p])) =>
            /\ outcome[p] = "ok"
            /\ \A i \in 1..Len(csv[p]) :
                  LET S == {r \in OfVersion(store, mv[p]) :
                               r.tower_id = csv[p][i].tower_id}
                      last == CHOOSE j \in 1..Len(csv[p]) :
                                /\ csv[p][j].tower_id = csv[p][i].tower_id
                                /\ \A k \in (j + 1)..Len(csv[p]) :
                                      csv[p][k].tower_id # csv[p][i].tower_id
                  IN  /\ Cardinality(S) = 1
                      /\ \A r \in S : Content(r) = data[p][last]

\* C23: an import that ran to its end, alone or interleaved with an import
\* of another model_version, succeeded; the records of its version are its
\* batch, as after running the imports one after the other, and the records
\* of a version that no import named are those stored at the start.
C23_VersionsIndependent ==
    \A p, q \in Procs :
        (/\ p # q
         /\ Finished(p) /\ outcome[p] # "crash"
         /\ \/ outcome[q] = "none"
            \/ Finished(q) /\ outcome[q] # "crash" /\ mv[q] # mv[p]) =>
            /\ outcome[p] = "ok"
            /\ Contents(OfVersion(store, mv[p])) =
                   {data[p][i] : i \in 1..Len(data[p])}
            /\ \A v \in Versions \ {mv[p]} :
                  (outcome[q] = "none" \/ v # mv[q]) =>
                      OfVersion(store, v) = OfVersion(pre["a"], v)

\* two committed imports of different versions, the second started before the
\* first had committed its rows
C23_Witness ==
    /\ Committed("a") /\ Committed("b")
    /\ mv["a"] # mv["b"]
    /\ data["a"] # <<>> /\ data["b"] # <<>>
    /\ OfVersion(pre["b"], mv["a"]) # OfVersion(store, mv["a"])
    /\ OfVersion(pre["a"], mv["b"]) # {}

\* the band counts listed by a distribution, and whether they ascend strictly
BandCountsOf(distribution) ==
    {distribution[k].band_count : k \in 1..Len(distribution)}

Ascending(distribution) ==
    \A k \in 1..(Len(distribution) - 1) :
        distribution[k].band_count < distribution[k + 1].band_count

\* C24: by_provider has one entry per provider_id of the association rows, in
\* strictly ascending provider_id order; every provider's distribution and
\* the overall distribution have one entry per band_count observed, in
\* strictly ascending band_count order.
C24_SortedEntries ==
    BandReplied =>
        LET b == resp[1].body
            n == Len(tower_providers)
        IN  /\ {b.by_provider[i].provider_id : i \in 1..Len(b.by_provider)} =
                   {tower_providers[j].provider_id : j \in 1..n}
            /\ \A i \in 1..(Len(b.by_provider) - 1) :
                  b.by_provider[i].provider_id < b.by_provider[i + 1].provider_id
            /\ \A i \in 1..Len(b.by_provider) :
                  /\ BandCountsOf(b.by_provider[i].distribution) =
                         {tower_providers[j].band_count :
                             j \in {k \in 1..n :
                                       tower_providers[k].provider_id =
                                           b.by_provider[i].provider_id}}
                  /\ Ascending(b.by_provider[i].distribution)
            /\ BandCountsOf(b.overall) =
                   {tower_providers[j].band_count : j \in 1..n}
            /\ Ascending(b.overall)

\* a reply over rows that name the higher provider first and, for one
\* provider, the higher band count first
C24_Witness ==
    /\ BandReplied
    /\ Len(tower_providers) >= 3
    /\ tower_providers[1].provider_id > tower_providers[2].provider_id
    /\ tower_providers[1].provider_id = tower_providers[3].provider_id
    /\ tower_providers[1].band_count > tower_providers[3].band_count
    /\ Len(resp[1].body.by_provider) = 2
    /\ Len(resp[1].body.by_provider[2].distribution) = 2

\* C25: the overall part classifies every tower once: endc_enabled counts the
\* towers with a row, of any provider, that reports EN-DC, endc_disabled the
\* other towers, and endc_enabled + endc_disabled = total_towers = the sum of
\* the overall tower counts.
C25_OverallEndc ==
    BandReplied =>
        LET b == resp[1].body
            n == Len(tower_providers)
            all == {tower_providers[j].tower_id : j \in 1..n}
            enabled == {tower_providers[j].tower_id :
                           j \in {k \in 1..n : tower_providers[k].endc_available}}
        IN  /\ b.endc_summary.endc_enabled = Cardinality(enabled)
            /\ b.endc_summary.endc_disabled = Cardinality(all \ enabled)
            /\ b.endc_summary.endc_enabled + b.endc_summary.endc_disabled =
                   b.total_towers
            /\ b.total_towers = SumTowerCounts(b.overall)

\* C26: two calls of get_top_anomalies with the same arguments on the same
\* store return the same sequence of tower_ids.
C26_TopDeterministic ==
    (resp # None /\ resp[1].op = "top_twice") =>
        /\ Len(resp[1].first) = Len(resp[1].body)
        /\ \A k \in 1..Len(resp[1].body) :
              resp[1].first[k].tower_id = resp[1].body[k].tower_id

\* the committed import of version v after which no import of v committed
LatestOf(p, v) ==
    /\ Committed(p)
    /\ mv[p] = v
    /\ \A q \in Procs : (Committed(q) /\ mv[q] = v) => txid[q] <= txid[p]

\* C27: while the imports run one at a time on batches of distinct tower_ids,
\* the committed records of every model_version all carry the run_id of the
\* latest committed import of that version, and the percentile of each is the
\* average-rank percentile of its anomaly_score among the records now stored
\* for that version.
C27_StoreCoherent ==
    (\A p \in Procs : DistinctTowers(csv[p])) =>
        \A v \in Versions :
            LET S == OfVersion(store, v)
            IN  \A r \in S :
                    /\ \A p \in Procs : LatestOf(p, v) => r.run_id = rid[p]
                    /\ \A q \in S : q.run_id = r.run_id
                    /\ r.percentile =
                           Frac((2 * Cardinality({q \in S :
                                        q.anomaly_score < r.anomaly_score})
                                 + Cardinality({q \in S :
                                        q.anomaly_score = r.anomaly_score})
                                 + 1) * 100,
                                2 * Cardinality(S))

\* a second import of a version, with another run_id and another batch, has
\* committed over the two records of the first
C27_Witness ==
    /\ Committed("a") /\ Committed("b")
    /\ mv["a"] = mv["b"]
    /\ rid["a"] # rid["b"]
    /\ DistinctTowers(csv["a"]) /\ DistinctTowers(csv["b"])
    /\ Len(csv["a"]) = 2 /\ Len(csv["b"]) = 1
    /\ Cardinality(OfVersion(store, mv["b"])) = 1

MetricsReplied ==
    resp # None /\ resp[1].op = "metrics" /\ resp[1].stage = "done"

\* C28: in a metrics reply stats.total_scored is the sum of the distribution
\* counts, and stats, distribution and top_anomalies all describe one batch
\* of the version: the one stored before the import or the one stored after.
C28_MetricsConsistent ==
    MetricsReplied =>
        LET m == resp[1]
        IN  /\ m.stats.total_scored = SumCounts(m.distribution)
            /\ \E B \in {OfVersion(pre["a"], m.model_version),
                         OfVersion(store, m.model_version)} :
                  /\ m.stats.total_scored = Cardinality(B)
                  /\ m.distribution = Distribution(B, 20)
                  /\ \A k \in 1..Len(m.top_anomalies) :
                        \E r \in B :
                            /\ r.tower_id = m.top_anomalies[k].tower_id
                            /\ r.anomaly_score = m.top_anomalies[k].anomaly_score
                            /\ r.percentile = m.top_anomalies[k].percentile
                  /\ Len(m.top_anomalies) =
                         (IF m.top_n < Cardinality(TopWhere(B, m.model_version, 95))
                          THEN m.top_n
                          ELSE Cardinality(TopWhere(B, m.model_version, 95)))

\* C29: the statistics of a version with records give as min_score and
\* max_score the smallest and the largest stored anomaly_score, a value of 0
\* included, and min_score <= mean_score <= max_score.
C29_MinMaxExact ==
    (StatsReplied /\ OfVersion(store, resp[1].model_version) # {}) =>
        LET b    == resp[1].body
            rows == OfVersion(store, resp[1].model_version)
            lo   == CHOOSE r \in rows :
                        \A q \in rows : r.anomaly_score <= q.anomaly_score
            hi   == CHOOSE r \in rows :
                        \A q \in rows : r.anomaly_score >= q.anomaly_score
        IN  /\ b.min_score = Frac(lo.anomaly_score, ScoreDen)
            /\ b.max_score = Frac(hi.anomaly_score, ScoreDen)
            /\ ~FracLess(b.mean_score, b.min_score)
            /\ ~FracLess(b.max_score, b.mean_score)

\* the clauses of a list_towers query that are the predicate of a filter
ClausesOf(texts) ==
    {k \in 1..Len(resp[1].where_clauses) :
        resp[1].where_clauses[k].text \in texts}

\* C30: the query of list_towers has exactly one predicate for every filter
\* supplied, whatever its value, and none for a filter not supplied; the
\* predicates set different keys of the where object, so that they are
\* combined by AND; the variables declared are the variables bound, and
\* every variable a predicate refers to is among them.
C30_FilterPredicates ==
    (resp # None /\ resp[1].op = "list_towers") =>
        LET q == resp[1]
            one(x, texts) ==
                Cardinality(ClausesOf(texts)) = (IF x # None THEN 1 ELSE 0)
            declared == {q.var_defs[k].name : k \in 1..Len(q.var_defs)}
        IN  /\ one(q.tower_type, {"tower_type: {_eq: $tower_type}"})
            /\ one(q.visible, {"visible: {_eq: $visible}"})
            /\ one(q.multi_provider,
                   {"provider_count: {_gt: 1}", "provider_count: {_eq: 1}"})
            /\ one(q.provider_id,
                   {"tower_providers: {provider_id: {_eq: $provider_id}}"})
            /\ one(q.rat, {"tower_providers: {rat: {_eq: $rat}}"})
            /\ \A j, k \in 1..Len(q.where_clauses) :
                  j # k => q.where_clauses[j].key # q.where_clauses[k].key
            /\ declared = DOMAIN q.variables
            /\ Cardinality(declared) = Len(q.var_defs)
            /\ \A k \in 1..Len(q.where_clauses) :
                  q.where_clauses[k].refs \subseteq declared

====
